---- MODULE Spec2Model ----
(***************************************************************************)
(* CustomFetch (src/dist/main.js): the request-execution pipeline, the     *)
(* process-wide response cache and the cache-management entry points.      *)
(*                                                                         *)
(* JavaScript runs one continuation at a time, so every action below is    *)
(* the code between two suspension points (await) of CustomFetch, or one   *)
(* synchronous exported function, or one event of the environment (a timer *)
(* firing, the transport settling, the wall clock advancing).              *)
(*                                                                         *)
(* Not modelled: createdAt, durationMs, the response headers object and    *)
(* the debug logging; none of them is read by any branch of the code.      *)
(***************************************************************************)
EXTENDS Integers, Sequences, FiniteSets, TLC

VARIABLES
    calls,          \* calls[c]: the locals of the c-th invocation of CustomFetch
    responseCache,  \* main.js:56  key -> [data, timestamp]
    cacheOrder,     \* the keys of responseCache in insertion order (Map iteration order)
    now,            \* Date.now()
    extAborted,     \* the caller-supplied AbortControllers whose signal is aborted
    nextId,         \* source of fresh request ids (generateRequestId)
    called,         \* the cache-management call made by the last step, if any
    stats           \* <<[result, cache, order, again]>>: what getCacheStats last
                    \* returned, the cache it was called on, and whether that was
                    \* the cache of the call before it

vars == <<calls, responseCache, cacheOrder, now, extAborted, nextId, called, stats>>

----------------------------------------------------------------------------
(* Bounds of the model                                                     *)

MaxRetries == 2
MaxTime == 2

AllCalls == {1, 2, 3}
Handles == {"ctl"}
NoHandle == "none"

(* Program defaults (main.js:118) are not used: every option is given.     *)

Null == <<>>
Num(n) == <<n>>

Statuses == {200, 304, 404, 429, 500}
\* the body text the transport serves to the n-th dispatch of a call
ContentOf(n) == IF n = 1 THEN "b1" ELSE IF n = 2 THEN "b2" ELSE IF n = 3 THEN "b3" ELSE "b4"

----------------------------------------------------------------------------
(* Values                                                                  *)

(* Exceptions: cls is the constructor (instanceof), name the .name field.  *)
NetworkErr(m) == [cls |-> "TypeError", name |-> "TypeError", message |-> m]
AbortErr == [cls |-> "Error", name |-> "AbortError", message |-> "This operation was aborted"]
NullReadErr == [cls |-> "TypeError", name |-> "TypeError",
                message |-> "Cannot read properties of null (reading 'message')"]
PlainErr == [cls |-> "Error", name |-> "Error", message |-> "boom"]
\* a raised value that is not an Error, such as the object {message: "thrown"}
ThrownValue == [cls |-> "none", name |-> "", message |-> "thrown"]

NetworkMessages == {"NetworkError a", "NetworkError b"}
\* String.prototype.includes("NetworkError") over the messages of the model
IncludesNetworkError(m) == m \in NetworkMessages

TransportErrors ==
    {NetworkErr(m) : m \in NetworkMessages}
        \cup {NetworkErr("fetch failed"), PlainErr, ThrownValue}
HookErrors == {NetworkErr("NetworkError a"), PlainErr, AbortErr}

isError(e) == e.cls \in {"Error", "TypeError"}
isAbortError(e) == isError(e) /\ e.name = "AbortError"
isNetworkError(e) == e.cls = "TypeError" /\ IncludesNetworkError(e.message)

(* Request bodies: null, a string, or a non-string BodyInit (Blob, ...).   *)
NoBody == [type |-> "null", text |-> ""]
StrBody(t) == [type |-> "string", text |-> t]
BlobBody == [type |-> "blob", text |-> ""]

createSuccessResponse(response, code, requestId) ==
    [isSuccess |-> TRUE, response |-> <<response>>, errors |-> <<>>,
     code |-> Num(code), requestId |-> requestId]

createErrorResponse(errors, code, requestId) ==
    [isSuccess |-> FALSE, response |-> <<>>, errors |-> <<errors>>,
     code |-> code, requestId |-> requestId]

Message(m) == [message |-> m, fields |-> "none"]

----------------------------------------------------------------------------
(* URL builder                                                             *)

\* params: [present, entries]; entries is a sequence of [key, value] in
\* insertion order; value is [t |-> "null", v |-> <<>>] (null or undefined),
\* [t |-> "scalar", v |-> <<x>>] or [t |-> "list", v |-> <<x, y, ...>>]
NoParams == [present |-> FALSE, entries |-> <<>>]
Params(entries) == [present |-> TRUE, entries |-> entries]

\* encodeURIComponent over the tokens of the model
encodeURIComponent(s) ==
    CASE s = "a b" -> "a%20b"
      [] s = "x&y" -> "x%26y"
      [] OTHER -> s

RECURSIVE Join(_, _)
Join(parts, sep) ==
    IF parts = <<>> THEN ""
    ELSE IF Len(parts) = 1 THEN parts[1]
    ELSE parts[1] \o sep \o Join(Tail(parts), sep)

Pair(k, v) == encodeURIComponent(k) \o "=" \o encodeURIComponent(v)

RECURSIVE PairsOf(_, _)
PairsOf(k, items) ==
    IF items = <<>> THEN <<>> ELSE <<Pair(k, Head(items))>> \o PairsOf(k, Tail(items))

RECURSIVE Parts(_)
Parts(entries) ==
    IF entries = <<>> THEN <<>>
    ELSE LET p == Head(entries) IN
         (IF p.value.t = "null" THEN <<>> ELSE PairsOf(p.key, p.value.v))
             \o Parts(Tail(entries))

serializeParams(params) == Join(Parts(params.entries), "&")

QueryUrls == {"/u?x=1"}
\* baseUrl.includes("?") over the URLs of the model
IncludesQuery(u) == u \in QueryUrls

buildUrl(baseUrl, params) ==
    IF ~params.present \/ params.entries = <<>> THEN baseUrl
    ELSE baseUrl \o (IF IncludesQuery(baseUrl) THEN "&" ELSE "?") \o serializeParams(params)

----------------------------------------------------------------------------
(* Headers (main.js:121-133)                                               *)

\* Headers.set: replace the value stored under the name
HeadersSet(h, name, value) == {x \in h : x[1] # name} \cup {<<name, value>>}
HeadersHas(h, name) == \E x \in h : x[1] = name

JsonTexts == {"{}"}
\* whether JSON.parse(text) returns, over the body texts of the model
JsonParses(text) == text \in JsonTexts

AssembleHeaders(o) ==
    LET h1 == IF o.customToken # ""
              THEN HeadersSet(o.headers, "Authorization", "Bearer " \o o.customToken)
              ELSE o.headers
    IN  IF o.body.type = "string" /\ o.body.text # "" /\ ~HeadersHas(h1, "Content-Type")
           /\ JsonParses(o.body.text)
        THEN HeadersSet(h1, "Content-Type", "application/json")
        ELSE h1

----------------------------------------------------------------------------
(* One invocation of CustomFetch                                           *)

NoOptions ==
    [url |-> "", params |-> NoParams, method |-> "GET", headers |-> {}, body |-> NoBody,
     customToken |-> "", retries |-> 0, retryDelay |-> 0, validateStatus |-> "none",
     responseGuard |-> FALSE, responseTransformer |-> FALSE, cacheResponse |-> FALSE,
     cacheTime |-> 0, abortController |-> NoHandle, onRequest |-> "none",
     onResponse |-> FALSE,
     onResponseName |-> ""]  \* which function options.onResponse is, when it is one

NoContext == [url |-> "", method |-> "GET", headers |-> {}, body |-> NoBody, requestId |-> 0]

(* What createClient closed over and what its request() was called with    *)
NoClient == <<>>

(* pc: idle (not invoked), resolveHeaders (a request of a client awaiting  *)
(* resolveHeaders), onRequest (awaiting the request interceptor),          *)
(* fetch (awaiting the transport), errBody / okBody (awaiting the body of  *)
(* a non-ok / ok response), onResponse (awaiting the response              *)
(* interceptor), sleep (awaiting delay), done (resolved with outcome),     *)
(* rejected (the promise of the call rejected).                            *)
(* The fields below `binary` are observations (history), never read by     *)
(* the pipeline.                                                           *)
IdleCall ==
    [pc |-> "idle", options |-> NoOptions, requestContext |-> NoContext, requestId |-> 0,
     cacheKey |-> Null, lastErrorMessage |-> "", attempts |-> 0,
     timers |-> {},          \* attempts whose timeoutId is still pending
     aborted |-> FALSE,      \* signal of the attempt's own AbortController
     code |-> 0, binary |-> FALSE,
     result |-> <<>>,        \* the outcome handed to the response interceptor
     outcome |-> <<>>,       \* the value the call resolved with
     dispatches |-> 0,       \* number of fetch() calls
     sleeps |-> <<>>,        \* the backoffTime of every delay(), in order
     probed |-> <<>>,        \* <<[item, at]>>: what responseCache.get returned, and when
     fromCache |-> FALSE,    \* the outcome is cachedItem.data
     wrote |-> <<>>,         \* <<[key, item]>>: the last responseCache.set of the call
     settled |-> 0,          \* number of responses the transport settled with
     uniform |-> <<>>,       \* <<s>>: all of them had status s; <<0>>: they differed
     lastStatus |-> 0,       \* the status of the last of them
     fired |-> <<>>,         \* <<[attempt, dispatches]>> when the call's timer last fired
     computed |-> 0,         \* number of responses whose transformedError was computed
     lastError |-> <<>>,     \* transformedError computed in the current attempt
     intercepted |-> <<>>,   \* what the response interceptor returned
     onResponseCalls |-> 0,
     onRequestCalls |-> 0,
     sent |-> <<>>,          \* <<[context, every]>>: the context of the first fetch(),
                             \* and whether every fetch() was given that context
     raised |-> <<>>,        \* the exception fetch() raised in the current attempt
     netErrors |-> 0,        \* number of fetch() calls that raised a network error
     rejectedBy |-> <<>>,    \* <<[guard, code]>>: the guard that returned false
     transformed |-> <<>>,   \* the last argument given to the responseTransformer
     thrownBy |-> <<>>,      \* <<[hook, error, at]>>: the interceptor that last raised,
                             \* what it raised and the dispatches made by then
     abortedAt |-> <<>>,     \* <<[pc, dispatches]>>: where the call was when the caller
                             \* aborted its controller
     client |-> NoClient,    \* <<[config, method, path, options]>> of a client's request
     onResponseBy |-> <<>>,  \* the names of the response interceptors invoked, in order
     caught |-> <<>>]        \* the exception the catch block turned into the outcome

\* mutant: the key is computed whether or not caching is enabled
CacheKeyOf_Always(options, requestContext) ==
    <<requestContext.method \o ":" \o requestContext.url \o ":$"
        \o (IF requestContext.body.type = "string" THEN requestContext.body.text ELSE "")>>

\* mutant: the key also tells whether the request carries an Authorization header
CacheKeyOf_VariesByAuthorization(options, requestContext) ==
    IF options.cacheResponse
    THEN <<requestContext.method \o ":" \o requestContext.url \o ":$"
            \o (IF requestContext.body.type = "string" THEN requestContext.body.text ELSE "")
            \o (IF HeadersHas(requestContext.headers, "Authorization") THEN "#auth" ELSE "")>>
    ELSE Null

(* main.js:144-146 *)
CacheKeyOf(options, requestContext) ==
    IF options.cacheResponse
    THEN <<requestContext.method \o ":" \o requestContext.url \o ":$"
            \o (IF requestContext.body.type = "string" THEN requestContext.body.text ELSE "")>>
    ELSE Null

(* main.js:159-161 *)
makeError(r, message, code) == createErrorResponse(Message(message), code, r.requestId)

\* mutant: the timer of the attempt is left armed
clearTimeout_Forgotten(r) == r

clearTimeout(r) == [r EXCEPT !.timers = @ \ {r.attempts}]

Return(r, out) ==
    [r EXCEPT !.pc = "done", !.outcome = <<out>>, !.result = <<>>, !.code = 0,
              !.binary = FALSE]

\* mutant: backoffTime = retryDelay * 2 ** attempts
Backoff_ExponentOffByOne(r) ==
    LET n == r.attempts + 1 IN
    [r EXCEPT !.attempts = n,
              !.sleeps = Append(@, r.options.retryDelay * 2 ^ n),
              !.pc = "sleep", !.code = 0, !.binary = FALSE]

\* mutant: attempts++ forgotten
Backoff_NoIncrement(r) ==
    [r EXCEPT !.sleeps = Append(@, r.options.retryDelay * 2 ^ r.attempts),
              !.pc = "sleep", !.code = 0, !.binary = FALSE]

\* mutant: the retry is dispatched at once, without awaiting the delay
Backoff_DispatchesAtOnce(r) ==
    LET n == r.attempts + 1 IN
    [r EXCEPT !.attempts = n,
              !.sleeps = Append(@, r.options.retryDelay * 2 ^ (n - 1)),
              !.pc = "fetch", !.timers = @ \cup {n}, !.aborted = FALSE,
              !.dispatches = @ + 1, !.code = 0, !.binary = FALSE]

(* attempts++; backoffTime = retryDelay * 2 ** (attempts - 1); await delay *)
Backoff(r) ==
    LET n == r.attempts + 1 IN
    [r EXCEPT !.attempts = n,
              !.sleeps = Append(@, r.options.retryDelay * 2 ^ (n - 1)),
              !.pc = "sleep", !.code = 0, !.binary = FALSE]

\* mutant: every attempt gets a fresh controller, the caller's is ignored
SignalAborted_OwnController(r, ext) == r.aborted

(* SignalAborted: controller.signal.aborted of the attempt in progress     *)
SignalAborted(r, ext) ==
    IF r.options.abortController # NoHandle
    THEN r.options.abortController \in ext
    ELSE r.aborted

\* mutant: the attempt counter starts again at every iteration
Loop_ResetsAttempts(r) ==
    [r EXCEPT !.pc = "fetch", !.attempts = 0, !.timers = @ \cup {0}, !.aborted = FALSE,
              !.dispatches = @ + 1, !.lastError = <<>>, !.raised = <<>>,
              !.sent = IF @ = <<>>
                       THEN <<[context |-> r.requestContext, every |-> TRUE]>>
                       ELSE <<[@[1] EXCEPT !.every = @ /\ r.sent[1].context
                                                             = r.requestContext]>>]

\* mutant: the loop test is attempts < retries
Loop_ExclusiveTest(r) ==
    IF r.attempts < r.options.retries
    THEN [r EXCEPT !.pc = "fetch", !.timers = @ \cup {r.attempts}, !.aborted = FALSE,
                   !.dispatches = @ + 1, !.lastError = <<>>, !.raised = <<>>,
                   !.sent = IF @ = <<>>
                            THEN <<[context |-> r.requestContext, every |-> TRUE]>>
                            ELSE <<[@[1] EXCEPT !.every = @ /\ r.sent[1].context
                                                                  = r.requestContext]>>]
    ELSE Return(r, makeError(r, r.lastErrorMessage, Null))

(* main.js:164-174: loop test, controller, timer, fetch(); 296-297 *)
Loop(r) ==
    IF r.attempts <= r.options.retries
    THEN [r EXCEPT !.pc = "fetch", !.timers = @ \cup {r.attempts}, !.aborted = FALSE,
                   !.dispatches = @ + 1, !.lastError = <<>>, !.raised = <<>>,
                   !.sent = IF @ = <<>>
                            THEN <<[context |-> r.requestContext, every |-> TRUE]>>
                            ELSE <<[@[1] EXCEPT !.every = @ /\ r.sent[1].context
                                                                  = r.requestContext]>>]
    ELSE Return(r, makeError(r, r.lastErrorMessage, Null))

\* mutant: the catch block rethrows
Catch_Rethrows(r, error) == [clearTimeout(r) EXCEPT !.pc = "rejected"]

\* mutant: an AbortError is retried like a network error
Catch_RetriesAbort(r, error) ==
    LET r1 == clearTimeout(r) IN
    IF (isAbortError(error) \/ isNetworkError(error)) /\ r1.attempts < r1.options.retries
    THEN Backoff(r1)
    ELSE IF isAbortError(error)
    THEN Return(r1, makeError(r1, "Request timeout", Num(408)))
    ELSE Return(r1, makeError(r1, IF isError(error) THEN error.message
                                  ELSE "Unknown error occurred", Null))

\* mutant: a network error is not recognised, so never retried
Catch_NetworkNotRetried(r, error) ==
    LET r1 == clearTimeout(r) IN
    IF isAbortError(error)
    THEN Return(r1, makeError(r1, "Request timeout", Num(408)))
    ELSE Return(r1, makeError(r1, IF isError(error) THEN error.message
                                  ELSE "Unknown error occurred", Null))

\* mutant: every exception that is not an AbortError is retried
Catch_RetriesAny(r, error) ==
    LET r1 == clearTimeout(r) IN
    IF ~isAbortError(error) /\ r1.attempts < r1.options.retries
    THEN Backoff(r1)
    ELSE IF isAbortError(error)
    THEN Return(r1, makeError(r1, "Request timeout", Num(408)))
    ELSE Return(r1, makeError(r1, IF isError(error) THEN error.message
                                  ELSE "Unknown error occurred", Null))

\* mutant: an exception raised after a response keeps the status of the response
Catch_KeepsStatus(r, error) ==
    LET r1 == [clearTimeout(r) EXCEPT !.caught = <<error>>] IN
    IF ~isAbortError(error) /\ isNetworkError(error) /\ r1.attempts < r1.options.retries
    THEN Backoff([r1 EXCEPT !.caught = <<>>])
    ELSE IF isAbortError(error)
    THEN Return(r1, makeError(r1, "Request timeout", Num(408)))
    ELSE Return(r1, makeError(r1, IF isError(error) THEN error.message
                                  ELSE "Unknown error occurred",
                              IF r1.code # 0 THEN Num(r1.code) ELSE Null))

\* mutant: network errors are counted apart from the retried responses
Catch_OwnCounter(r, error) ==
    LET r1 == [clearTimeout(r) EXCEPT !.caught = <<error>>] IN
    IF ~isAbortError(error) /\ isNetworkError(error) /\ r1.netErrors <= r1.options.retries
    THEN [r1 EXCEPT !.caught = <<>>, !.attempts = @ + 1,
                    !.sleeps = Append(@, r.options.retryDelay
                                               * 2 ^ (IF r1.netErrors > 0 THEN r1.netErrors - 1 ELSE 0)),
                    !.pc = "sleep", !.code = 0, !.binary = FALSE]
    ELSE IF isAbortError(error)
    THEN Return(r1, makeError(r1, "Request timeout", Num(408)))
    ELSE Return(r1, makeError(r1, IF isError(error) THEN error.message
                                  ELSE "Unknown error occurred", Null))

(* main.js:274-295 *)
Catch(r, error) ==
    LET r1 == [clearTimeout(r) EXCEPT !.caught = <<error>>] IN
    IF ~isAbortError(error) /\ isNetworkError(error) /\ r1.attempts < r1.options.retries
    THEN Backoff([r1 EXCEPT !.caught = <<>>])
    ELSE IF isAbortError(error)
    THEN Return(r1, makeError(r1, "Request timeout", Num(408)))
    ELSE Return(r1, makeError(r1, IF isError(error) THEN error.message
                                  ELSE "Unknown error occurred", Null))

(* A step's effect: the call's new locals and the new cache.               *)
Keep(r, cache) == [call |-> r, cache |-> cache]

MapSet(m, k, v) == [x \in DOMAIN m \cup {k} |-> IF x = k THEN v ELSE m[x]]
MapDelete(m, k) == [x \in DOMAIN m \ {k} |-> m[x]]

\* mutant: an entry that is present is not overwritten
CacheSet_IfAbsent(r, cache, data, t) ==
    LET item == [data |-> data, timestamp |-> t] IN
    IF r.cacheKey[1] \in DOMAIN cache THEN [call |-> r, cache |-> cache]
    ELSE [call |-> [r EXCEPT !.wrote = <<[key |-> r.cacheKey[1], item |-> item]>>],
          cache |-> MapSet(cache, r.cacheKey[1], item)]

(* responseCache.set(cacheKey, {data, timestamp: Date.now()}) *)
CacheSet(r, cache, data, t) ==
    LET item == [data |-> data, timestamp |-> t] IN
    [call |-> [r EXCEPT !.wrote = <<[key |-> r.cacheKey[1], item |-> item]>>],
     cache |-> MapSet(cache, r.cacheKey[1], item)]

(* Map iteration order: a key that is set while present keeps its place,   *)
(* a new key goes last, a deleted key leaves                               *)
Reorder(order, cache) ==
    LET kept == SelectSeq(order, LAMBDA k : k \in DOMAIN cache)
        new == DOMAIN cache \ {order[i] : i \in 1 .. Len(order)}
    IN  IF new = {} THEN kept ELSE Append(kept, CHOOSE k \in new : TRUE)

Apply(c, eff) ==
    /\ calls' = [calls EXCEPT ![c] = eff.call]
    /\ responseCache' = eff.cache
    /\ cacheOrder' = Reorder(cacheOrder, eff.cache)

\* mutant: a terminal Failure is stored whatever the status of the response
StoreError_AnyStatus(r, cache, errorResponse, t) ==
    IF r.cacheKey # Null
    THEN CacheSet(Return(r, errorResponse), cache, errorResponse, t)
    ELSE Keep(Return(r, errorResponse), cache)

\* mutant: a 429 is left out of the statuses that are stored
StoreError_Not429(r, cache, errorResponse, t) ==
    IF r.cacheKey # Null /\ r.code >= 400 /\ r.code < 500 /\ r.code # 429
    THEN CacheSet(Return(r, errorResponse), cache, errorResponse, t)
    ELSE Keep(Return(r, errorResponse), cache)

(* main.js:214-220 *)
StoreError(r, cache, errorResponse, t) ==
    IF r.cacheKey # Null /\ r.code >= 400 /\ r.code < 500
    THEN CacheSet(Return(r, errorResponse), cache, errorResponse, t)
    ELSE Keep(Return(r, errorResponse), cache)

\* mutant: a Success is not stored over an entry that is present
StoreSuccess_KeepsExisting(r, cache, successResponse, t) ==
    IF r.cacheKey # Null /\ r.cacheKey[1] \notin DOMAIN cache
    THEN CacheSet(Return(r, successResponse), cache, successResponse, t)
    ELSE Keep(Return(r, successResponse), cache)

(* main.js:266-272 *)
StoreSuccess(r, cache, successResponse, t) ==
    IF r.cacheKey # Null
    THEN CacheSet(Return(r, successResponse), cache, successResponse, t)
    ELSE Keep(Return(r, successResponse), cache)

(* await onResponse({request, result, durationMs}) *)
CallOnResponse(r, cache, result) ==
    Keep([r EXCEPT !.pc = "onResponse", !.result = <<result>>,
                   !.onResponseCalls = @ + 1,
                   !.onResponseBy = Append(@, r.options.onResponseName)], cache)

(* main.js:203-220 *)
ErrorTerminal(r, cache, transformedError, t) ==
    LET errorResponse == createErrorResponse(transformedError, Num(r.code), r.requestId) IN
    IF r.options.onResponse
    THEN CallOnResponse(r, cache, errorResponse)
    ELSE StoreError(r, cache, errorResponse, t)

(* main.js:255-272 *)
SuccessTerminal(r, cache, parsedResponse, t) ==
    LET successResponse == createSuccessResponse(parsedResponse, r.code, r.requestId) IN
    IF r.options.onResponse
    THEN CallOnResponse(r, cache, successResponse)
    ELSE StoreSuccess(r, cache, successResponse, t)

(* Parsed bodies (parseResponseBody): a string, an object with a message   *)
(* field, any other non-null JSON value, or JSON null.                     *)
BodyKinds == {"text", "objMsg", "obj", "null"}
RawBody(kind, r) == [kind |-> kind, v |-> ContentOf(r.dispatches)]

(* main.js:184-186 for a rawError that is not null *)
ErrorDataOf(rawError) ==
    CASE rawError.kind = "text" -> [message |-> rawError.v, fields |-> "none"]
      [] rawError.kind = "objMsg" -> [message |-> rawError.v, fields |-> "own"]
      [] OTHER -> [message |-> "Unknown error", fields |-> rawError.v]

\* an errorTransformer that changes the payload
MappedError(errorData) == [message |-> "T:" \o errorData.message, fields |-> "mapped"]
\* a responseTransformer result
MappedResponse(rawResponse) == [kind |-> "mapped", v |-> rawResponse.v]
Base64(v) == [kind |-> "base64", v |-> v]

(* What the caller's synchronous callbacks do when invoked: a guard passes *)
(* (an absent guard behaves as one that passes), rejects or throws err; a  *)
(* transformer returns its argument (as an absent one does), maps it, or   *)
(* throws err.                                                             *)
Hooks ==
    {[guard |-> "pass", xf |-> x, err |-> PlainErr] : x \in {"same", "mapped"}}
        \cup {[guard |-> "reject", xf |-> "same", err |-> PlainErr]}
        \cup {[guard |-> "throw", xf |-> "same", err |-> e] : e \in HookErrors}
        \cup {[guard |-> "pass", xf |-> "throw", err |-> e] : e \in HookErrors}

\* mutant: every status from 400 up is retried
ErrBodyEffect_Retries4xx(r, cache, rawError, h, t) ==
    IF rawError.kind = "null" THEN Keep(Catch(r, NullReadErr), cache)
    ELSE
    LET errorData == ErrorDataOf(rawError) IN
    IF h.guard = "throw" THEN Keep(Catch(r, h.err), cache)
    ELSE IF h.guard = "reject"
    THEN Keep(Return([r EXCEPT !.rejectedBy = <<[guard |-> "errorGuard", code |-> r.code]>>],
                     createErrorResponse(Message("Error validation failed"),
                                         Num(r.code), r.requestId)), cache)
    ELSE IF h.xf = "throw" THEN Keep(Catch(r, h.err), cache)
    ELSE
    LET transformedError == IF h.xf = "mapped" THEN MappedError(errorData) ELSE errorData
        r1 == [r EXCEPT !.lastError = <<transformedError>>, !.computed = @ + 1]
    IN  IF r.code >= 400 /\ r.attempts < r.options.retries
        THEN Keep(Backoff([r1 EXCEPT !.lastErrorMessage = transformedError.message]), cache)
        ELSE ErrorTerminal(r1, cache, transformedError, t)

\* mutant: a payload the error guard rejects is still retried on 5xx and 429
ErrBodyEffect_RejectRetried(r, cache, rawError, h, t) ==
    IF rawError.kind = "null" THEN Keep(Catch(r, NullReadErr), cache)
    ELSE
    LET errorData == ErrorDataOf(rawError) IN
    IF h.guard = "throw" THEN Keep(Catch(r, h.err), cache)
    ELSE IF h.guard = "reject" /\ (r.code >= 500 \/ r.code = 429)
                               /\ r.attempts < r.options.retries
    THEN Keep(Backoff([r EXCEPT !.rejectedBy =
                                    <<[guard |-> "errorGuard", code |-> r.code]>>]), cache)
    ELSE IF h.guard = "reject"
    THEN Keep(Return([r EXCEPT !.rejectedBy = <<[guard |-> "errorGuard", code |-> r.code]>>],
                     createErrorResponse(Message("Error validation failed"),
                                         Num(r.code), r.requestId)), cache)
    ELSE IF h.xf = "throw" THEN Keep(Catch(r, h.err), cache)
    ELSE
    LET transformedError == IF h.xf = "mapped" THEN MappedError(errorData) ELSE errorData
        r1 == [r EXCEPT !.lastError = <<transformedError>>, !.computed = @ + 1]
    IN  IF (r.code >= 500 \/ r.code = 429) /\ r.attempts < r.options.retries
        THEN Keep(Backoff([r1 EXCEPT !.lastErrorMessage = transformedError.message]), cache)
        ELSE ErrorTerminal(r1, cache, transformedError, t)

\* mutant: the Failure of an error guard rejection takes the path of any
\* other terminal Failure: response interceptor, then the cache
ErrBodyEffect_RejectionIntercepted(r, cache, rawError, h, t) ==
    IF rawError.kind = "null" THEN Keep(Catch(r, NullReadErr), cache)
    ELSE
    LET errorData == ErrorDataOf(rawError) IN
    IF h.guard = "throw" THEN Keep(Catch(r, h.err), cache)
    ELSE IF h.guard = "reject"
    THEN ErrorTerminal([r EXCEPT !.rejectedBy = <<[guard |-> "errorGuard", code |-> r.code]>>],
                       cache, Message("Error validation failed"), t)
    ELSE IF h.xf = "throw" THEN Keep(Catch(r, h.err), cache)
    ELSE
    LET transformedError == IF h.xf = "mapped" THEN MappedError(errorData) ELSE errorData
        r1 == [r EXCEPT !.lastError = <<transformedError>>, !.computed = @ + 1]
    IN  IF (r.code >= 500 \/ r.code = 429) /\ r.attempts < r.options.retries
        THEN Keep(Backoff([r1 EXCEPT !.lastErrorMessage = transformedError.message]), cache)
        ELSE ErrorTerminal(r1, cache, transformedError, t)

(* main.js:183-221: the continuation of a non-ok response once its body    *)
(* has been read                                                           *)
ErrBodyEffect(r, cache, rawError, h, t) ==
    IF rawError.kind = "null" THEN Keep(Catch(r, NullReadErr), cache)
    ELSE
    LET errorData == ErrorDataOf(rawError) IN
    IF h.guard = "throw" THEN Keep(Catch(r, h.err), cache)
    ELSE IF h.guard = "reject"
    THEN Keep(Return([r EXCEPT !.rejectedBy = <<[guard |-> "errorGuard", code |-> r.code]>>],
                     createErrorResponse(Message("Error validation failed"),
                                         Num(r.code), r.requestId)), cache)
    ELSE IF h.xf = "throw" THEN Keep(Catch(r, h.err), cache)
    ELSE
    LET transformedError == IF h.xf = "mapped" THEN MappedError(errorData) ELSE errorData
        r1 == [r EXCEPT !.lastError = <<transformedError>>, !.computed = @ + 1]
    IN  IF (r.code >= 500 \/ r.code = 429) /\ r.attempts < r.options.retries
        THEN Keep(Backoff([r1 EXCEPT !.lastErrorMessage = transformedError.message]), cache)
        ELSE ErrorTerminal(r1, cache, transformedError, t)

\* mutant: a body the response guard rejects is retried while retries remain
OkBodyEffect_RejectRetried(r, cache, rawResponse, h, t) ==
    IF r.binary THEN SuccessTerminal(r, cache, Base64(rawResponse.v), t)
    ELSE IF r.options.responseGuard
    THEN (IF h.guard = "throw" THEN Keep(Catch(r, h.err), cache)
          ELSE IF h.guard = "reject" /\ r.attempts < r.options.retries
          THEN Keep(Backoff([r EXCEPT !.rejectedBy =
                                          <<[guard |-> "responseGuard", code |-> r.code]>>]),
                    cache)
          ELSE IF h.guard = "reject"
          THEN Keep(Return([r EXCEPT !.rejectedBy =
                                          <<[guard |-> "responseGuard", code |-> r.code]>>],
                           createErrorResponse(Message("Response validation failed"),
                                               Num(r.code), r.requestId)), cache)
          ELSE SuccessTerminal(r, cache, rawResponse, t))
    ELSE IF r.options.responseTransformer /\ rawResponse.kind \in {"obj", "objMsg"}
    THEN (LET r1 == [r EXCEPT !.transformed = <<rawResponse>>] IN
          IF h.xf = "throw" THEN Keep(Catch(r1, h.err), cache)
          ELSE SuccessTerminal(r1, cache,
                               IF h.xf = "mapped" THEN MappedResponse(rawResponse)
                               ELSE rawResponse, t))
    ELSE SuccessTerminal(r, cache, rawResponse, t)

\* mutant: the transformer is applied to a value the guard accepted
OkBodyEffect_TransformsAccepted(r, cache, rawResponse, h, t) ==
    IF r.binary THEN SuccessTerminal(r, cache, Base64(rawResponse.v), t)
    ELSE IF r.options.responseGuard /\ h.guard = "throw" THEN Keep(Catch(r, h.err), cache)
    ELSE IF r.options.responseGuard /\ h.guard = "reject"
    THEN Keep(Return([r EXCEPT !.rejectedBy =
                                    <<[guard |-> "responseGuard", code |-> r.code]>>],
                     createErrorResponse(Message("Response validation failed"),
                                         Num(r.code), r.requestId)), cache)
    ELSE IF r.options.responseTransformer /\ rawResponse.kind \in {"obj", "objMsg"}
    THEN (LET r1 == [r EXCEPT !.transformed = <<rawResponse>>] IN
          IF h.xf = "throw" THEN Keep(Catch(r1, h.err), cache)
          ELSE SuccessTerminal(r1, cache,
                               IF h.xf = "mapped" THEN MappedResponse(rawResponse)
                               ELSE rawResponse, t))
    ELSE SuccessTerminal(r, cache, rawResponse, t)

(* main.js:222-272: the continuation of an ok response once its body has   *)
(* been read                                                               *)
OkBodyEffect(r, cache, rawResponse, h, t) ==
    IF r.binary THEN SuccessTerminal(r, cache, Base64(rawResponse.v), t)
    ELSE IF r.options.responseGuard
    THEN (IF h.guard = "throw" THEN Keep(Catch(r, h.err), cache)
          ELSE IF h.guard = "reject"
          THEN Keep(Return([r EXCEPT !.rejectedBy =
                                          <<[guard |-> "responseGuard", code |-> r.code]>>],
                           createErrorResponse(Message("Response validation failed"),
                                               Num(r.code), r.requestId)), cache)
          ELSE SuccessTerminal(r, cache, rawResponse, t))
    ELSE IF r.options.responseTransformer /\ rawResponse.kind \in {"obj", "objMsg"}
    THEN (LET r1 == [r EXCEPT !.transformed = <<rawResponse>>] IN
          IF h.xf = "throw" THEN Keep(Catch(r1, h.err), cache)
          ELSE SuccessTerminal(r1, cache,
                               IF h.xf = "mapped" THEN MappedResponse(rawResponse)
                               ELSE rawResponse, t))
    ELSE SuccessTerminal(r, cache, rawResponse, t)

\* mutant: an entry aged exactly cacheTime is still served
AfterRequest_InclusiveAge(r, cache, t) ==
    LET key == CacheKeyOf(r.options, r.requestContext)
        present == key # Null /\ key[1] \in DOMAIN cache
        r1 == [r EXCEPT !.cacheKey = key,
                        !.probed = IF key = Null THEN <<>>
                                   ELSE <<[item |-> IF present THEN <<cache[key[1]]>> ELSE <<>>,
                                           at |-> t]>>]
    IN  IF present /\ t - cache[key[1]].timestamp <= r.options.cacheTime
        THEN Keep(Return([r1 EXCEPT !.fromCache = TRUE], cache[key[1]].data), cache)
        ELSE Keep(Loop(r1), IF present THEN MapDelete(cache, key[1]) ELSE cache)

\* mutant: a hit refreshes the timestamp of the entry it served
AfterRequest_HitRefreshes(r, cache, t) ==
    LET key == CacheKeyOf(r.options, r.requestContext)
        present == key # Null /\ key[1] \in DOMAIN cache
        r1 == [r EXCEPT !.cacheKey = key,
                        !.probed = IF key = Null THEN <<>>
                                   ELSE <<[item |-> IF present THEN <<cache[key[1]]>> ELSE <<>>,
                                           at |-> t]>>]
    IN  IF present /\ t - cache[key[1]].timestamp < r.options.cacheTime
        THEN Keep(Return([r1 EXCEPT !.fromCache = TRUE], cache[key[1]].data),
                  MapSet(cache, key[1], [cache[key[1]] EXCEPT !.timestamp = t]))
        ELSE Keep(Loop(r1), IF present THEN MapDelete(cache, key[1]) ELSE cache)

\* mutant: an entry found stale is left in the cache
AfterRequest_KeepsStale(r, cache, t) ==
    LET key == CacheKeyOf(r.options, r.requestContext)
        present == key # Null /\ key[1] \in DOMAIN cache
        r1 == [r EXCEPT !.cacheKey = key,
                        !.probed = IF key = Null THEN <<>>
                                   ELSE <<[item |-> IF present THEN <<cache[key[1]]>> ELSE <<>>,
                                           at |-> t]>>]
    IN  IF present /\ t - cache[key[1]].timestamp < r.options.cacheTime
        THEN Keep(Return([r1 EXCEPT !.fromCache = TRUE], cache[key[1]].data), cache)
        ELSE Keep(Loop(r1), cache)

(* main.js:144-164: cache key, cache probe, then the first attempt         *)
AfterRequest(r, cache, t) ==
    LET key == CacheKeyOf(r.options, r.requestContext)
        present == key # Null /\ key[1] \in DOMAIN cache
        r1 == [r EXCEPT !.cacheKey = key,
                        !.probed = IF key = Null THEN <<>>
                                   ELSE <<[item |-> IF present THEN <<cache[key[1]]>> ELSE <<>>,
                                           at |-> t]>>]
    IN  IF present /\ t - cache[key[1]].timestamp < r.options.cacheTime
        THEN Keep(Return([r1 EXCEPT !.fromCache = TRUE], cache[key[1]].data), cache)
        ELSE Keep(Loop(r1), IF present THEN MapDelete(cache, key[1]) ELSE cache)

(* What a response interceptor returns: its argument, or another Success,  *)
(* or another Failure (status 418, or 503 for "unavailable").              *)
InterceptorResult(result, choice) ==
    CASE choice = "success" ->
            [isSuccess |-> TRUE, response |-> <<[kind |-> "hook", v |-> "h"]>>,
             errors |-> <<>>, code |-> Num(200), requestId |-> result.requestId]
      [] choice = "failure" ->
            [isSuccess |-> FALSE, response |-> <<>>, errors |-> <<Message("hook")>>,
             code |-> Num(418), requestId |-> result.requestId]
      [] choice = "unavailable" ->
            [isSuccess |-> FALSE, response |-> <<>>, errors |-> <<Message("hook")>>,
             code |-> Num(503), requestId |-> result.requestId]
      [] OTHER -> result

\* mutant: whatever the interceptor returned replaces the terminal outcome
OnResponseEffect_AdoptsAny(r, cache, result, t) ==
    LET r1 == [r EXCEPT !.intercepted = <<result>>] IN
    IF r.result[1].isSuccess
    THEN StoreSuccess(r1, cache, result, t)
    ELSE StoreError(r1, cache, result, t)

(* main.js:205-220 and 257-272: the continuation after onResponse returned *)
OnResponseEffect(r, cache, result, t) ==
    LET r1 == [r EXCEPT !.intercepted = <<result>>] IN
    IF r.result[1].isSuccess
    THEN StoreSuccess(r1, cache, IF result.isSuccess THEN result ELSE r.result[1], t)
    ELSE StoreError(r1, cache, IF ~result.isSuccess THEN result ELSE r.result[1], t)

----------------------------------------------------------------------------
(* Actions                                                                 *)

(* main.js:115-143: CustomFetch({options: o}) up to its first suspension   *)
(* point, in the call whose locals are r0                                  *)
Enter(r0, o, id, cache, t) ==
    LET r == [r0 EXCEPT
                !.options = o, !.requestId = id,
                !.requestContext = [url |-> buildUrl(o.url, o.params),
                                    method |-> o.method,
                                    headers |-> AssembleHeaders(o),
                                    body |-> o.body, requestId |-> id]]
    IN  IF o.onRequest # "none"
        THEN Keep([r EXCEPT !.pc = "onRequest", !.onRequestCalls = 1], cache)
        ELSE AfterRequest(r, cache, t)

Start(c, o) ==
    /\ calls[c].pc = "idle"
    /\ \A d \in AllCalls : d < c => calls[d].pc # "idle"
    /\ Apply(c, Enter(IdleCall, o, nextId, responseCache, now))
    /\ nextId' = nextId + 1
    /\ UNCHANGED <<now, extAborted>>
    /\ called' = <<>>
    /\ UNCHANGED stats

(* options.onRequest is the caller's function, named by what it does with  *)
(* the context: "same" returns it, "rewrite" returns one with another URL, *)
(* "replace" returns one with another method, URL, headers and body,       *)
(* "stamp" sets one more header, "throws" raises.                          *)
onRequest(kind, ctx) ==
    CASE kind = "rewrite" -> [ctx EXCEPT !.url = "/r"]
      [] kind = "stamp" -> [ctx EXCEPT !.headers = HeadersSet(@, "X-Client", "1")]
      [] kind = "replace" ->
            [ctx EXCEPT !.url = "/r", !.method = "POST", !.headers = {<<"X-Trace", "1">>},
                        !.body = StrBody("r")]
      [] OTHER -> ctx

\* mutant: the context the interceptor returned is dropped
OnRequestReturn_KeepsGiven(c) ==
    /\ calls[c].pc = "onRequest"
    /\ calls[c].options.onRequest # "throws"
    /\ Apply(c, AfterRequest(calls[c], responseCache, now))
    /\ UNCHANGED <<now, extAborted, nextId>>
    /\ called' = <<>>
    /\ UNCHANGED stats

OnRequestReturn(c) ==
    /\ calls[c].pc = "onRequest"
    /\ calls[c].options.onRequest # "throws"
    /\ Apply(c, AfterRequest([calls[c] EXCEPT !.requestContext =
                                  onRequest(calls[c].options.onRequest, @)],
                             responseCache, now))
    /\ UNCHANGED <<now, extAborted, nextId>>
    /\ called' = <<>>
    /\ UNCHANGED stats

(* onRequest is awaited outside the try block: its exception rejects *)
OnRequestThrow(c) ==
    /\ calls[c].pc = "onRequest"
    /\ calls[c].options.onRequest = "throws"
    /\ calls' = [calls EXCEPT ![c].pc = "rejected",
                              ![c].thrownBy = <<[hook |-> "onRequest", error |-> PlainErr,
                                                 at |-> 0]>>]
    /\ UNCHANGED <<responseCache, cacheOrder, now, extAborted, nextId>>
    /\ called' = <<>>
    /\ UNCHANGED stats

\* mutant: the timer is left armed when the response arrives
FetchResolve_KeepsTimer(c, status, binary) ==
    LET r == calls[c]
        isResponseOk == IF r.options.validateStatus = "lt500" THEN status < 500
                        ELSE status >= 200 /\ status <= 299
    IN  /\ r.pc = "fetch"
        /\ ~SignalAborted(r, extAborted)
        /\ binary => isResponseOk
        /\ calls' = [calls EXCEPT ![c] =
                        [r EXCEPT !.code = status, !.binary = binary,
                            !.settled = @ + 1, !.lastStatus = status,
                            !.uniform = IF r.settled = 0 \/ @ = <<status>>
                                        THEN <<status>> ELSE <<0>>,
                            !.pc = IF isResponseOk THEN "okBody" ELSE "errBody"]]
        /\ UNCHANGED <<responseCache, cacheOrder, now, extAborted, nextId>>
        /\ called' = <<>>
        /\ UNCHANGED stats

(* the transport settles with a response: main.js:175-182 *)
FetchResolve(c, status, binary) ==
    LET r == calls[c]
        isResponseOk == IF r.options.validateStatus = "lt500" THEN status < 500
                        ELSE status >= 200 /\ status <= 299
    IN  /\ r.pc = "fetch"
        /\ ~SignalAborted(r, extAborted)
        /\ binary => isResponseOk
        /\ calls' = [calls EXCEPT ![c] =
                        [clearTimeout(r) EXCEPT !.code = status, !.binary = binary,
                            !.settled = @ + 1, !.lastStatus = status,
                            !.uniform = IF r.settled = 0 \/ @ = <<status>>
                                        THEN <<status>> ELSE <<0>>,
                            !.pc = IF isResponseOk THEN "okBody" ELSE "errBody"]]
        /\ UNCHANGED <<responseCache, cacheOrder, now, extAborted, nextId>>
        /\ called' = <<>>
        /\ UNCHANGED stats

(* the transport rejects, not because of its signal *)
FetchReject(c, error) ==
    /\ calls[c].pc = "fetch"
    /\ ~SignalAborted(calls[c], extAborted)
    /\ calls' = [calls EXCEPT ![c] =
                    Catch([@ EXCEPT !.raised = <<error>>,
                                    !.netErrors = IF isNetworkError(error) THEN @ + 1 ELSE @],
                          error)]
    /\ UNCHANGED <<responseCache, cacheOrder, now, extAborted, nextId>>
    /\ called' = <<>>
    /\ UNCHANGED stats

(* the transport rejects because its signal is aborted *)
FetchAborted(c) ==
    /\ calls[c].pc = "fetch"
    /\ SignalAborted(calls[c], extAborted)
    /\ calls' = [calls EXCEPT ![c] = Catch([@ EXCEPT !.raised = <<AbortErr>>], AbortErr)]
    /\ UNCHANGED <<responseCache, cacheOrder, now, extAborted, nextId>>
    /\ called' = <<>>
    /\ UNCHANGED stats

ErrBody(c, kind, h) ==
    /\ calls[c].pc = "errBody"
    /\ Apply(c, ErrBodyEffect(calls[c], responseCache, RawBody(kind, calls[c]), h, now))
    /\ UNCHANGED <<now, extAborted, nextId>>
    /\ called' = <<>>
    /\ UNCHANGED stats

OkBody(c, kind, h) ==
    /\ calls[c].pc = "okBody"
    /\ Apply(c, OkBodyEffect(calls[c], responseCache, RawBody(kind, calls[c]), h, now))
    /\ UNCHANGED <<now, extAborted, nextId>>
    /\ called' = <<>>
    /\ UNCHANGED stats

(* response.text() / response.arrayBuffer() rejects: with an AbortError    *)
(* only if the signal given to fetch is aborted                            *)
BodyFail(c, error) ==
    /\ calls[c].pc \in {"errBody", "okBody"}
    /\ isAbortError(error) => SignalAborted(calls[c], extAborted)
    /\ calls' = [calls EXCEPT ![c] = Catch(@, error)]
    /\ UNCHANGED <<responseCache, cacheOrder, now, extAborted, nextId>>
    /\ called' = <<>>
    /\ UNCHANGED stats

OnResponseReturn(c, choice) ==
    /\ calls[c].pc = "onResponse"
    /\ Apply(c, OnResponseEffect(calls[c], responseCache,
                                 InterceptorResult(calls[c].result[1], choice), now))
    /\ UNCHANGED <<now, extAborted, nextId>>
    /\ called' = <<>>
    /\ UNCHANGED stats

\* mutant: the exception of onResponse escapes the call
OnResponseThrow_Rejects(c, error) ==
    /\ calls[c].pc = "onResponse"
    /\ calls' = [calls EXCEPT ![c] =
                    [clearTimeout(@) EXCEPT
                        !.pc = "rejected", !.result = <<>>,
                        !.thrownBy = <<[hook |-> "onResponse", error |-> error,
                                        at |-> calls[c].dispatches]>>]]
    /\ UNCHANGED <<responseCache, cacheOrder, now, extAborted, nextId>>
    /\ called' = <<>>
    /\ UNCHANGED stats

(* onResponse is awaited inside the try block *)
OnResponseThrow(c, error) ==
    /\ calls[c].pc = "onResponse"
    /\ calls' = [calls EXCEPT ![c] =
                    Catch([@ EXCEPT !.result = <<>>,
                                    !.thrownBy = <<[hook |-> "onResponse", error |-> error,
                                                    at |-> calls[c].dispatches]>>],
                          error)]
    /\ UNCHANGED <<responseCache, cacheOrder, now, extAborted, nextId>>
    /\ called' = <<>>
    /\ UNCHANGED stats

(* delay(backoffTime) resolves: continue *)
SleepEnd(c) ==
    /\ calls[c].pc = "sleep"
    /\ calls' = [calls EXCEPT ![c] = Loop(@)]
    /\ UNCHANGED <<responseCache, cacheOrder, now, extAborted, nextId>>
    /\ called' = <<>>
    /\ UNCHANGED stats

(* main.js:166: the callback of setTimeout runs: controller.abort() *)
TimerFire(c, k) ==
    LET r == calls[c] IN
    /\ k \in r.timers
    /\ calls' = [calls EXCEPT ![c].timers = @ \ {k},
                              ![c].fired = <<[attempt |-> k, dispatches |-> r.dispatches]>>,
                              ![c].aborted = IF r.options.abortController = NoHandle
                                                /\ k = r.attempts
                                             THEN TRUE ELSE @]
    /\ extAborted' = IF r.options.abortController # NoHandle
                     THEN extAborted \cup {r.options.abortController} ELSE extAborted
    /\ UNCHANGED <<responseCache, cacheOrder, now, nextId>>
    /\ called' = <<>>
    /\ UNCHANGED stats

(* the caller aborts a controller it passed as options.abortController *)
ExternalAbort(h) ==
    /\ h \notin extAborted
    /\ \E c \in AllCalls :
          /\ calls[c].pc \notin {"idle", "done", "rejected"}
          /\ calls[c].options.abortController = h
    /\ extAborted' = extAborted \cup {h}
    /\ calls' = [c \in AllCalls |->
                    IF calls[c].pc \notin {"idle", "done", "rejected"}
                       /\ calls[c].options.abortController = h
                    THEN [calls[c] EXCEPT !.abortedAt =
                              <<[pc |-> calls[c].pc, dispatches |-> calls[c].dispatches]>>]
                    ELSE calls[c]]
    /\ UNCHANGED <<responseCache, cacheOrder, now, nextId>>
    /\ called' = <<>>
    /\ UNCHANGED stats

Tick ==
    /\ now < MaxTime
    /\ now' = now + 1
    /\ UNCHANGED <<calls, responseCache, cacheOrder, extAborted, nextId>>
    /\ called' = <<>>
    /\ UNCHANGED stats

----------------------------------------------------------------------------
(* createClient (main.js:299-371)                                          *)

(* config, with the defaults of main.js:300 filled in *)
NoConfig ==
    [baseUrl |-> "", defaultHeaders |-> {}, defaultRetries |-> 0,
     defaultRetryDelay |-> 1000, onRequest |-> "none", onResponse |-> FALSE,
     onResponseName |-> ""]

(* The options argument of client.request: o is a full options record;    *)
(* retries and retryDelay are Null when the caller left them undefined.    *)
RequestOptions(o, retries, retryDelay) ==
    [o |-> o, retries |-> retries, retryDelay |-> retryDelay]

HttpPaths == {"http://h/p"}
\* path.startsWith("http") over the paths of the model
StartsWithHttp(path) == path \in HttpPaths

(* main.js:310-316: the defaults, then every header of the call set over   *)
(* them                                                                    *)
MergeHeaders(defaults, headers) ==
    {x \in defaults : ~HeadersHas(headers, x[1])} \cup headers

\* mutant: the client-level interceptors take precedence
request_ClientWins(config, method, path, options) ==
    [options.o EXCEPT
        !.url = IF StartsWithHttp(path) THEN path ELSE config.baseUrl \o path,
        !.method = method,
        !.headers = MergeHeaders(config.defaultHeaders, options.o.headers),
        !.retries = IF options.retries # Null THEN options.retries[1]
                    ELSE config.defaultRetries,
        !.retryDelay = IF options.retryDelay # Null THEN options.retryDelay[1]
                       ELSE config.defaultRetryDelay,
        !.onRequest = IF config.onRequest # "none" THEN config.onRequest
                      ELSE options.o.onRequest,
        !.onResponse = config.onResponse \/ options.o.onResponse,
        !.onResponseName = IF config.onResponse THEN config.onResponseName
                           ELSE options.o.onResponseName]

(* main.js:317-331: the options request() hands to CustomFetch *)
request(config, method, path, options) ==
    [options.o EXCEPT
        !.url = IF StartsWithHttp(path) THEN path ELSE config.baseUrl \o path,
        !.method = method,
        !.headers = MergeHeaders(config.defaultHeaders, options.o.headers),
        !.retries = IF options.retries # Null THEN options.retries[1]
                    ELSE config.defaultRetries,
        !.retryDelay = IF options.retryDelay # Null THEN options.retryDelay[1]
                       ELSE config.defaultRetryDelay,
        !.onRequest = IF options.o.onRequest # "none" THEN options.o.onRequest
                      ELSE config.onRequest,
        !.onResponse = options.o.onResponse \/ config.onResponse,
        !.onResponseName = IF options.o.onResponse THEN options.o.onResponseName
                           ELSE config.onResponseName]

(* main.js:308-309: request(method, path, options) of a client built from  *)
(* config, up to await resolveHeaders()                                    *)
ClientRequest(c, config, method, path, options) ==
    /\ calls[c].pc = "idle"
    /\ \A d \in AllCalls : d < c => calls[d].pc # "idle"
    /\ calls' = [calls EXCEPT ![c] =
                    [IdleCall EXCEPT !.pc = "resolveHeaders",
                                     !.client = <<[config |-> config, method |-> method,
                                                   path |-> path, options |-> options]>>]]
    /\ UNCHANGED <<responseCache, cacheOrder, now, extAborted, nextId>>
    /\ called' = <<>>
    /\ UNCHANGED stats

(* main.js:310-331: resolveHeaders() returned the static defaultHeaders;   *)
(* CustomFetch is called and runs up to its first suspension point         *)
ResolveHeadersReturn(c) ==
    /\ calls[c].pc = "resolveHeaders"
    /\ LET q == calls[c].client[1] IN
       Apply(c, Enter(calls[c], request(q.config, q.method, q.path, q.options),
                      nextId, responseCache, now))
    /\ nextId' = nextId + 1
    /\ UNCHANGED <<now, extAborted>>
    /\ called' = <<>>
    /\ UNCHANGED stats

\* mutant: clearing also makes the calls in flight give up their store
clearFetchCache_DetachesCalls ==
    /\ responseCache' = <<>>
    /\ cacheOrder' = <<>>
    /\ calls' = [c \in AllCalls |->
                    IF calls[c].pc \in {"idle", "done", "rejected"} THEN calls[c]
                    ELSE [calls[c] EXCEPT !.cacheKey = Null]]
    /\ UNCHANGED <<now, extAborted, nextId>>
    /\ called' = <<"clearFetchCache">>
    /\ UNCHANGED stats

(* main.js:57-59 *)
clearFetchCache ==
    /\ responseCache' = <<>>
    /\ cacheOrder' = <<>>
    /\ UNCHANGED <<calls, now, extAborted, nextId>>
    /\ called' = <<"clearFetchCache">>
    /\ UNCHANGED stats

\* what getCacheStats returns on a cache, and whether the cache is the one
\* the previous getCacheStats was called on
StatsRecord(result, cache, order, last) ==
    [result |-> result, cache |-> cache, order |-> order,
     again |-> last # <<>> /\ last[1].cache = cache /\ last[1].order = order]

\* mutant: the entries are handed over and the cache is left empty
getCacheStats_Drains ==
    LET result == [size |-> Cardinality(DOMAIN responseCache), keys |-> cacheOrder]
    IN  /\ stats' = <<StatsRecord(result, responseCache, cacheOrder, stats)>>
        /\ called' = <<"getCacheStats", result>>
        /\ responseCache' = <<>>
        /\ cacheOrder' = <<>>
        /\ UNCHANGED <<calls, now, extAborted, nextId>>

(* main.js:63-65 *)
getCacheStats ==
    LET result == [size |-> Cardinality(DOMAIN responseCache), keys |-> cacheOrder]
    IN  /\ stats' = <<StatsRecord(result, responseCache, cacheOrder, stats)>>
        /\ called' = <<"getCacheStats", result>>
        /\ UNCHANGED <<calls, responseCache, cacheOrder, now, extAborted, nextId>>

\* mutant: every entry is removed
clearSpecificCache_All(url, method, body) ==
    /\ responseCache' = <<>>
    /\ cacheOrder' = <<>>
    /\ UNCHANGED <<calls, now, extAborted, nextId>>
    /\ called' = <<"clearSpecificCache", url, method, body>>
    /\ UNCHANGED stats

(* main.js:60-62; body is a string or null *)
clearSpecificCache(url, method, body) ==
    /\ responseCache' = MapDelete(responseCache,
                                  method \o ":" \o url \o ":" \o
                                      (IF body.type = "null" THEN "" ELSE body.text))
    /\ cacheOrder' = Reorder(cacheOrder, responseCache')
    /\ UNCHANGED <<calls, now, extAborted, nextId>>
    /\ called' = <<"clearSpecificCache", url, method, body>>
    /\ UNCHANGED stats

Init ==
    /\ calls = [c \in AllCalls |-> IdleCall]
    /\ responseCache = <<>>
    /\ cacheOrder = <<>>
    /\ now = 0
    /\ extAborted = {}
    /\ nextId = 1
    /\ called = <<>>
    /\ stats = <<>>

----------------------------------------------------------------------------
(* The steps of one call. E bounds what the environment of the call does:  *)
(* the statuses, content types and parsed body kinds the transport serves, *)
(* the exceptions it raises, what the caller's callbacks do and what the   *)
(* response interceptor returns.                                           *)

(* the steps of a call whose attempts settle or fail in the transport *)
CoreStep(c, E) ==
    \/ OnRequestReturn(c)
    \/ \E status \in E.statuses, binary \in E.binary : FetchResolve(c, status, binary)
    \/ \E error \in E.errors : FetchReject(c, error)
    \/ \E kind \in E.kinds, h \in E.hooks : ErrBody(c, kind, h)
    \/ \E kind \in E.kinds, h \in E.hooks : OkBody(c, kind, h)
    \/ \E choice \in E.choices : OnResponseReturn(c, choice)
    \/ SleepEnd(c)

(* raising interceptors, timers that fire, aborted signals, failed reads *)
FaultStep(c, E) ==
    \/ OnRequestThrow(c)
    \/ FetchAborted(c)
    \/ \E error \in E.errors \cup {AbortErr} : BodyFail(c, error)
    \/ \E error \in E.hookErrors : OnResponseThrow(c, error)
    \/ \E k \in 0 .. calls[c].attempts : TimerFire(c, k)

CallStep(c, E) == CoreStep(c, E) \/ FaultStep(c, E)

FullEnv ==
    [statuses |-> Statuses, binary |-> BOOLEAN, kinds |-> BodyKinds, hooks |-> Hooks,
     errors |-> TransportErrors, hookErrors |-> HookErrors,
     choices |-> {"same", "success", "failure"}]

----------------------------------------------------------------------------
(* SpecCall: one call against FullEnv, the cache empty when it starts.     *)
(* RetryOptions: every retry count and delay, with and without an external *)
(* controller and a response interceptor.  HookOptions: every combination  *)
(* of validateStatus, responseGuard, responseTransformer and interceptors, *)
(* with at most one retry.  CachingOptions: caching enabled, with and      *)
(* without a response interceptor.                                         *)

RetryDelays == {250, 1000}

RetryOptions ==
    {[NoOptions EXCEPT !.url = "/u", !.retries = n, !.retryDelay = d,
                       !.abortController = a, !.onResponse = i] :
        n \in 0 .. MaxRetries, d \in RetryDelays, a \in {NoHandle} \cup Handles,
        i \in BOOLEAN}

HookOptions ==
    {[NoOptions EXCEPT !.url = "/u", !.retries = n, !.retryDelay = 1000,
                       !.validateStatus = v, !.responseGuard = g[1],
                       !.responseTransformer = g[2], !.abortController = a,
                       !.onRequest = i[1], !.onResponse = i[2]] :
        n \in {0, 1}, v \in {"none", "lt500"}, g \in BOOLEAN \X BOOLEAN,
        i \in {"none", "same", "throws"} \X BOOLEAN, a \in {NoHandle} \cup Handles}

CachingOptions ==
    {[NoOptions EXCEPT !.url = "/u", !.retryDelay = 1000, !.cacheResponse = TRUE,
                       !.cacheTime = 1, !.onResponse = i] : i \in BOOLEAN}

CallOptions == RetryOptions \cup HookOptions \cup CachingOptions

NextCall ==
    \/ \E o \in CallOptions : Start(1, o)
    \/ CallStep(1, FullEnv)
    \/ \E h \in Handles : ExternalAbort(h)

SpecCall == Init /\ [][NextCall]_vars

----------------------------------------------------------------------------
(* Spec: calls issued one after the other by a caller that also uses the   *)
(* cache-management functions, while the clock advances.  Every call is a  *)
(* GET of /u; the calls differ in the body (two cache keys), in caching,   *)
(* in cacheTime and in the request interceptor.  The transport settles     *)
(* every attempt or fails it; faults after a response are SpecCall's.      *)

SysCalls == {1, 2}
CacheTimes == {1, 2}

SysOptions ==
    {[NoOptions EXCEPT !.url = "/u", !.body = b, !.retries = 1, !.retryDelay = 1000,
                       !.cacheResponse = k[1], !.cacheTime = k[2], !.onResponse = TRUE] :
        b \in {NoBody, StrBody(":")}, k \in {<<FALSE, 1>>} \cup ({TRUE} \X CacheTimes)}
    \cup
    {[NoOptions EXCEPT !.url = "/u", !.retryDelay = 1000, !.cacheResponse = TRUE,
                       !.cacheTime = 2, !.onRequest = "rewrite"]}

SysEnv ==
    [statuses |-> {200, 404, 500}, binary |-> {FALSE}, kinds |-> {"text"},
     hooks |-> {[guard |-> "pass", xf |-> "same", err |-> PlainErr]},
     errors |-> {NetworkErr("fetch failed")}, hookErrors |-> {}, choices |-> {"same"}]

\* the arguments given to clearSpecificCache
ClearUrls == {"/u", "/u:$"}
ClearMethods == {"GET"}
ClearBodies == {NoBody, StrBody("$")}

\* no call is in flight
Quiet == \A d \in AllCalls : calls[d].pc \in {"idle", "done", "rejected"}

Next ==
    \/ \E c \in SysCalls, o \in SysOptions : Quiet /\ Start(c, o)
    \/ \E c \in SysCalls : CoreStep(c, SysEnv)
    \/ Tick
    \/ Quiet /\ clearFetchCache
    \/ \E url \in ClearUrls, method \in ClearMethods, body \in ClearBodies :
          Quiet /\ clearSpecificCache(url, method, body)

Spec == Init /\ [][Next]_vars

----------------------------------------------------------------------------
(* SpecRepeat: three calls issued one after the other while the clock      *)
(* advances, each a caching-enabled GET of /u with or without a body; the  *)
(* cache-management functions are not used.                                *)

RepeatOptions ==
    {[NoOptions EXCEPT !.url = "/u", !.body = b, !.retries = 1, !.retryDelay = 1000,
                       !.cacheResponse = TRUE, !.cacheTime = 1, !.onRequest = "same",
                       !.onResponse = TRUE] :
        b \in {NoBody, StrBody(":")}}

RepeatEnv ==
    [statuses |-> {200, 500}, binary |-> {FALSE}, kinds |-> {"text"},
     hooks |-> {[guard |-> "pass", xf |-> "same", err |-> PlainErr]},
     errors |-> {NetworkErr("fetch failed")}, hookErrors |-> {}, choices |-> {"same"}]

NextRepeat ==
    \/ \E c \in AllCalls, o \in RepeatOptions : Quiet /\ Start(c, o)
    \/ \E c \in AllCalls : CoreStep(c, RepeatEnv)
    \/ Tick

SpecRepeat == Init /\ [][NextRepeat]_vars

----------------------------------------------------------------------------
(* SpecStore: two caching-enabled calls with one retry, issued one after   *)
(* the other while the clock advances, each with both interceptors or with *)
(* none.  The request interceptor replaces the context; the transport      *)
(* serves successes, client errors, 429 and     *)
(* server errors, raises a recognised network error or is cancelled by the *)
(* call's timer; the response interceptor returns what it was given or a   *)
(* Failure of status 503.                                                  *)

StoreCalls == {1, 2}

StoreOptions ==
    {[NoOptions EXCEPT !.url = "/u", !.retries = 1, !.retryDelay = 1000,
                       !.cacheResponse = TRUE, !.cacheTime = 1, !.onRequest = i[1],
                       !.onResponse = i[2]] : i \in {<<"replace", TRUE>>, <<"none", FALSE>>}}

StoreEnv ==
    [statuses |-> {200, 404, 429, 500}, binary |-> {FALSE}, kinds |-> {"text"},
     hooks |-> {[guard |-> "pass", xf |-> "same", err |-> PlainErr]},
     errors |-> {NetworkErr("NetworkError a")}, hookErrors |-> {},
     choices |-> {"same", "unavailable"}]

NextStore ==
    \/ \E c \in StoreCalls, o \in StoreOptions : Quiet /\ Start(c, o)
    \/ \E c \in StoreCalls : CoreStep(c, StoreEnv)
    \/ \E c \in StoreCalls : \E k \in 0 .. calls[c].attempts : TimerFire(c, k)
    \/ \E c \in StoreCalls : FetchAborted(c)
    \/ Tick

SpecStore == Init /\ [][NextStore]_vars

----------------------------------------------------------------------------
(* SpecStats: three caching-enabled calls without retries, of two cache    *)
(* keys, issued one after the other while the clock advances, by a caller  *)
(* that reads the cache statistics at any moment and clears the cache      *)
(* between calls.                                                          *)

StatsOptions ==
    {[NoOptions EXCEPT !.url = "/u", !.body = b, !.retryDelay = 1000,
                       !.cacheResponse = TRUE, !.cacheTime = 1] :
        b \in {NoBody, StrBody(":")}}

StatsEnv ==
    [statuses |-> {200, 500}, binary |-> {FALSE}, kinds |-> {"text"},
     hooks |-> {[guard |-> "pass", xf |-> "same", err |-> PlainErr]},
     errors |-> {NetworkErr("fetch failed")}, hookErrors |-> {}, choices |-> {"same"}]

NextStats ==
    \/ \E c \in AllCalls, o \in StatsOptions : Quiet /\ Start(c, o)
    \/ \E c \in AllCalls :
          \/ \E status \in StatsEnv.statuses : FetchResolve(c, status, FALSE)
          \/ \E error \in StatsEnv.errors : FetchReject(c, error)
          \/ \E kind \in StatsEnv.kinds, h \in StatsEnv.hooks : ErrBody(c, kind, h)
          \/ \E kind \in StatsEnv.kinds, h \in StatsEnv.hooks : OkBody(c, kind, h)
    \/ Tick
    \/ getCacheStats
    \/ Quiet /\ clearFetchCache
    \/ Quiet /\ clearSpecificCache("/u:$", "GET", NoBody)

SpecStats == Init /\ [][NextStats]_vars

----------------------------------------------------------------------------
(* SpecUrl: buildUrl applied to one base URL, with or without a query, and *)
(* one parameter object: absent, or up to MaxParams entries whose keys     *)
(* differ and whose values are null, a scalar, an empty list or a list.    *)

MaxParams == 2

ParamKeys == {"a", "a b"}
ParamValues ==
    {[t |-> "null", v |-> <<>>], [t |-> "scalar", v |-> <<"1">>],
     [t |-> "scalar", v |-> <<"x&y">>], [t |-> "list", v |-> <<>>],
     [t |-> "list", v |-> <<"1", "2">>]}
ParamEntries == [key : ParamKeys, value : ParamValues]

ParamObjects ==
    {NoParams} \cup
    {Params(e) : e \in {q \in UNION {[1 .. n -> ParamEntries] : n \in 0 .. MaxParams} :
                           \A i, j \in DOMAIN q : i # j => q[i].key # q[j].key}}

BaseUrls == {"/u"} \cup QueryUrls

InitUrl ==
    /\ calls = [c \in AllCalls |-> IdleCall]
    /\ responseCache = <<>>
    /\ cacheOrder = <<>>
    /\ now = 0
    /\ extAborted = {}
    /\ nextId = 1
    /\ stats = <<>>
    /\ \E baseUrl \in BaseUrls, params \in ParamObjects :
          called = <<"input", baseUrl, params>>

(* main.js:120: const url = buildUrl(rawUrl, params) *)
BuildUrl ==
    /\ called[1] = "input"
    /\ called' = <<"buildUrl", called[2], called[3], buildUrl(called[2], called[3])>>
    /\ UNCHANGED <<calls, responseCache, cacheOrder, now, extAborted, nextId, stats>>

SpecUrl == InitUrl /\ [][BuildUrl]_vars

----------------------------------------------------------------------------
(* SpecLive: one call whose hooks return and whose awaited operations all  *)
(* complete: the transport settles or fails every dispatch, or fails it    *)
(* with an AbortError once the signal is aborted by the timer or by the    *)
(* caller; every body read, interceptor call and backoff sleep ends.       *)

LiveOptions ==
    {[NoOptions EXCEPT !.url = "/u", !.retries = n, !.retryDelay = 1000,
                       !.abortController = a, !.onRequest = i[1], !.onResponse = i[2]] :
        n \in 0 .. MaxRetries, a \in {NoHandle} \cup Handles,
        i \in {"none", "same"} \X BOOLEAN}

LiveEnv ==
    [statuses |-> {200, 404, 500}, binary |-> {FALSE}, kinds |-> {"text", "null"},
     hooks |-> {[guard |-> g, xf |-> "same", err |-> PlainErr] : g \in {"pass", "reject"}},
     errors |-> {NetworkErr("NetworkError a"), PlainErr},
     hookErrors |-> {NetworkErr("NetworkError a"), PlainErr},
     choices |-> {"same", "failure"}]

\* the steps by which the awaited operation of the call completes
Completes(c) == CoreStep(c, LiveEnv) \/ FetchAborted(c)

NextLive ==
    \/ \E o \in LiveOptions : Start(1, o)
    \/ Completes(1)
    \/ \E error \in LiveEnv.errors \cup {AbortErr} : BodyFail(1, error)
    \/ \E error \in LiveEnv.hookErrors : OnResponseThrow(1, error)
    \/ \E k \in 0 .. calls[1].attempts : TimerFire(1, k)
    \/ \E h \in Handles : ExternalAbort(h)

SpecLive == Init /\ [][NextLive]_vars /\ WF_vars(Completes(1))

----------------------------------------------------------------------------
(* SpecPair: two calls in flight at the same time, caching disabled, each  *)
(* with its own controller per attempt or with the caller's controller,    *)
(* which the two calls then share.  The transport serves a success or a    *)
(* server error or raises a network error; timers fire; the caller may     *)
(* abort its controller.                                                   *)

PairCalls == {1, 2}

PairOptions ==
    {[NoOptions EXCEPT !.url = "/u", !.retries = n, !.retryDelay = 1000,
                       !.abortController = a] :
        n \in {0, 1}, a \in {NoHandle} \cup Handles}

PairEnv ==
    [statuses |-> {200, 500}, binary |-> {FALSE}, kinds |-> {"text"},
     hooks |-> {[guard |-> "pass", xf |-> "same", err |-> PlainErr]},
     errors |-> {NetworkErr("NetworkError a")}, hookErrors |-> {}, choices |-> {"same"}]

NextPair ==
    \/ \E c \in PairCalls, o \in PairOptions : Start(c, o)
    \/ \E c \in PairCalls :
          \/ \E status \in PairEnv.statuses : FetchResolve(c, status, FALSE)
          \/ \E error \in PairEnv.errors : FetchReject(c, error)
          \/ \E kind \in PairEnv.kinds, h \in PairEnv.hooks : ErrBody(c, kind, h)
          \/ \E kind \in PairEnv.kinds, h \in PairEnv.hooks : OkBody(c, kind, h)
          \/ SleepEnd(c)
          \/ FetchAborted(c)
          \/ \E k \in 0 .. calls[c].attempts : TimerFire(c, k)
    \/ \E h \in Handles : ExternalAbort(h)

SpecPair == Init /\ [][NextPair]_vars

----------------------------------------------------------------------------
(* SpecRace: two caching-enabled calls without retries in flight at the    *)
(* same time, with the same or with different cache keys, while the clock  *)
(* advances and the caller clears the cache at any moment.                 *)

RaceOptions ==
    {[NoOptions EXCEPT !.url = "/u", !.body = b, !.retryDelay = 1000,
                       !.cacheResponse = TRUE, !.cacheTime = 1] :
        b \in {NoBody, StrBody(":")}}

RaceEnv ==
    [statuses |-> {200, 404, 500}, binary |-> {FALSE}, kinds |-> {"text"},
     hooks |-> {[guard |-> "pass", xf |-> "same", err |-> PlainErr]},
     errors |-> {NetworkErr("fetch failed")}, hookErrors |-> {}, choices |-> {"same"}]

NextRace ==
    \/ \E c \in PairCalls, o \in RaceOptions : Start(c, o)
    \/ \E c \in PairCalls :
          \/ \E status \in RaceEnv.statuses : FetchResolve(c, status, FALSE)
          \/ \E error \in RaceEnv.errors : FetchReject(c, error)
          \/ \E kind \in RaceEnv.kinds, h \in RaceEnv.hooks : ErrBody(c, kind, h)
          \/ \E kind \in RaceEnv.kinds, h \in RaceEnv.hooks : OkBody(c, kind, h)
    \/ Tick
    \/ clearFetchCache
    \/ clearSpecificCache("/u:$", "GET", NoBody)

SpecRace == Init /\ [][NextRace]_vars

----------------------------------------------------------------------------
(* SpecKey: two caching-enabled calls issued one after the other while the *)
(* clock advances.  Both are GETs whose URL after the request interceptor  *)
(* is /r; they differ in how they get there (given, or rewritten by the    *)
(* interceptor), in the headers, the bearer token, the body (none, a Blob, *)
(* a string) and in having a response guard or a response transformer.     *)
(* The transport serves a JSON object with status 200 or 500; a guard      *)
(* passes or rejects, a transformer maps its argument.                     *)

KeyOptions ==
    {[NoOptions EXCEPT !.url = u[1], !.onRequest = u[2], !.headers = a[1],
                       !.customToken = a[2], !.body = b, !.responseGuard = g[1],
                       !.responseTransformer = g[2], !.retryDelay = 1000,
                       !.cacheResponse = TRUE, !.cacheTime = 1] :
        u \in {<<"/r", "none">>, <<"/u", "rewrite">>},
        a \in {<<{}, "">>, <<{<<"X-A", "1">>}, "">>, <<{}, "tok">>},
        b \in {NoBody, BlobBody, StrBody("s")},
        g \in {<<TRUE, FALSE>>, <<FALSE, TRUE>>}}

KeyEnv ==
    [statuses |-> {200, 500}, binary |-> {FALSE}, kinds |-> {"obj"},
     hooks |-> {[guard |-> "pass", xf |-> "mapped", err |-> PlainErr],
                [guard |-> "reject", xf |-> "same", err |-> PlainErr]},
     errors |-> {}, hookErrors |-> {}, choices |-> {}]

NextKey ==
    \/ \E c \in PairCalls, o \in KeyOptions : Quiet /\ Start(c, o)
    \/ \E c \in PairCalls :
          \/ OnRequestReturn(c)
          \/ \E status \in KeyEnv.statuses : FetchResolve(c, status, FALSE)
          \/ \E kind \in KeyEnv.kinds, h \in KeyEnv.hooks : ErrBody(c, kind, h)
          \/ \E kind \in KeyEnv.kinds, h \in KeyEnv.hooks : OkBody(c, kind, h)
    \/ Tick

SpecKey == Init /\ [][NextKey]_vars

----------------------------------------------------------------------------
(* SpecTwins: two identical caching-enabled calls in flight at the same    *)
(* time, both with or both without a response interceptor, while the clock *)
(* advances; the cache-management functions are not used.  The transport   *)
(* serves a success, a client error or a server error, or raises.          *)

TwinOptions ==
    {[NoOptions EXCEPT !.url = "/u", !.retryDelay = 1000, !.cacheResponse = TRUE,
                       !.cacheTime = 1, !.onResponse = i] : i \in BOOLEAN}

TwinEnv ==
    [statuses |-> {200, 404, 500}, binary |-> {FALSE}, kinds |-> {"text"},
     hooks |-> {[guard |-> "pass", xf |-> "same", err |-> PlainErr]},
     errors |-> {NetworkErr("fetch failed")}, hookErrors |-> {}, choices |-> {"same"}]

NextTwins ==
    \/ \E c \in PairCalls, o \in TwinOptions :
          /\ \A d \in PairCalls : calls[d].pc # "idle" => calls[d].options = o
          /\ Start(c, o)
    \/ \E c \in PairCalls :
          \/ \E status \in TwinEnv.statuses : FetchResolve(c, status, FALSE)
          \/ \E error \in TwinEnv.errors : FetchReject(c, error)
          \/ \E kind \in TwinEnv.kinds, h \in TwinEnv.hooks : ErrBody(c, kind, h)
          \/ \E kind \in TwinEnv.kinds, h \in TwinEnv.hooks : OkBody(c, kind, h)
          \/ \E choice \in TwinEnv.choices : OnResponseReturn(c, choice)
    \/ Tick

SpecTwins == Init /\ [][NextTwins]_vars

----------------------------------------------------------------------------
(* SpecGuard: two identical caching-enabled calls issued one after the     *)
(* other while the clock advances, each with a response guard, with or     *)
(* without a response interceptor and a retry.  The transport serves a     *)
(* success, a client error or a server error; the guard of either kind of  *)
(* response passes or rejects; the interceptor returns what it was given.  *)

GuardOptions ==
    {[NoOptions EXCEPT !.url = "/u", !.retries = n, !.retryDelay = 1000,
                       !.responseGuard = TRUE, !.cacheResponse = TRUE, !.cacheTime = 2,
                       !.onResponse = i] : n \in {0, 1}, i \in BOOLEAN}

GuardEnv ==
    [statuses |-> {200, 404, 500}, binary |-> {FALSE}, kinds |-> {"obj"},
     hooks |-> {[guard |-> g, xf |-> "same", err |-> PlainErr] : g \in {"pass", "reject"}},
     errors |-> {}, hookErrors |-> {}, choices |-> {"same"}]

NextGuard ==
    \/ \E c \in PairCalls, o \in GuardOptions : Quiet /\ Start(c, o)
    \/ \E c \in PairCalls :
          \/ \E status \in GuardEnv.statuses : FetchResolve(c, status, FALSE)
          \/ \E kind \in GuardEnv.kinds, h \in GuardEnv.hooks : ErrBody(c, kind, h)
          \/ \E kind \in GuardEnv.kinds, h \in GuardEnv.hooks : OkBody(c, kind, h)
          \/ \E choice \in GuardEnv.choices : OnResponseReturn(c, choice)
          \/ SleepEnd(c)
    \/ Tick

SpecGuard == Init /\ [][NextGuard]_vars

----------------------------------------------------------------------------
(* SpecClient: one request made through a client.  The client has no       *)
(* interceptor or both: a request interceptor that sets a header and a     *)
(* response interceptor named "global".  The request supplies no           *)
(* interceptor, or a request interceptor that rewrites the URL, or a       *)
(* response interceptor named "own", or both, and gives or leaves out      *)
(* retries.  The transport serves a success, a client error or a server    *)
(* error; a response interceptor returns what it was given or a Failure.   *)

ClientConfigs ==
    {[NoConfig EXCEPT !.baseUrl = "http://h", !.defaultHeaders = {<<"X-Default", "d">>},
                      !.defaultRetries = 1, !.onRequest = g[1], !.onResponse = g[2],
                      !.onResponseName = g[3]] :
        g \in {<<"none", FALSE, "">>, <<"stamp", TRUE, "global">>}}

ClientPaths == {"/p"} \cup HttpPaths

ClientRequestOptions ==
    {RequestOptions([NoOptions EXCEPT !.headers = {<<"X-Own", "o">>},
                                      !.onRequest = i, !.onResponse = j[1],
                                      !.onResponseName = j[2]], n, Null) :
        i \in {"none", "rewrite"}, j \in {<<FALSE, "">>, <<TRUE, "own">>},
        n \in {Null, Num(0)}}

ClientEnv ==
    [statuses |-> {200, 404, 500}, binary |-> {FALSE}, kinds |-> {"text"},
     hooks |-> {[guard |-> "pass", xf |-> "same", err |-> PlainErr]},
     errors |-> {NetworkErr("fetch failed")}, hookErrors |-> {},
     choices |-> {"same", "failure"}]

NextClient ==
    \/ \E config \in ClientConfigs, path \in ClientPaths, options \in ClientRequestOptions :
          ClientRequest(1, config, "GET", path, options)
    \/ ResolveHeadersReturn(1)
    \/ CoreStep(1, ClientEnv)

SpecClient == Init /\ [][NextClient]_vars

----------------------------------------------------------------------------
(* Claims checked under SpecCall                                           *)

IsOutcome(o) ==
    /\ o.isSuccess => Len(o.response) = 1 /\ o.errors = <<>> /\ o.code # Null
    /\ ~o.isSuccess => Len(o.errors) = 1 /\ o.response = <<>>

Done(c) == calls[c].pc = "done"
OutcomeOf(c) == calls[c].outcome[1]
MessageOf(c) == OutcomeOf(c).errors[1].message

(* C1: a call whose request interceptor does not raise never rejects; when *)
(* it has resolved it has resolved with exactly one Outcome, a Success or  *)
(* a Failure, whatever the transport and the other callbacks did.          *)
C1_NeverRejects ==
    \A c \in AllCalls :
        /\ calls[c].options.onRequest # "throws" => calls[c].pc # "rejected"
        /\ Done(c) <=> calls[c].outcome # <<>>
        /\ Done(c) => Len(calls[c].outcome) = 1 /\ IsOutcome(OutcomeOf(c))
                        /\ OutcomeOf(c).requestId = calls[c].requestId

\* a response interceptor raised a non-Error value after a retry: a Failure
C1_Witness ==
    /\ Done(1) /\ calls[1].onResponseCalls = 1 /\ calls[1].dispatches = 2
    /\ calls[1].intercepted = <<>>
    /\ ~OutcomeOf(1).isSuccess /\ OutcomeOf(1).code = Null
    /\ MessageOf(1) = "boom"

\* retryDelay * 2^0, ..., retryDelay * 2^(n-1)
BackoffDelays(retryDelay, n) == [i \in 1 .. n |-> retryDelay * 2 ^ (i - 1)]

\* isResponseOk as the call computes it
IsOk(o, status) ==
    IF o.validateStatus = "lt500" THEN status < 500 ELSE status >= 200 /\ status <= 299

\* every dispatch of c settled with the same non-successful status s
AllSettledWith(c, s) ==
    /\ calls[c].settled = calls[c].dispatches
    /\ calls[c].uniform = <<s>>
    /\ ~IsOk(calls[c].options, s)

C2_Conclusion(c, s) ==
    /\ calls[c].dispatches = calls[c].options.retries + 1
    /\ calls[c].sleeps = BackoffDelays(calls[c].options.retryDelay, calls[c].options.retries)
    /\ calls[c].lastError # <<>>
    /\ OutcomeOf(c) = createErrorResponse(calls[c].lastError[1], Num(s), calls[c].requestId)

(* C2 as stated: persistent status s >= 500 or 429 gives retries+1         *)
(* dispatches, the backoff delays in order and a Failure with status s and *)
(* the transformed payload of the last response.                           *)
C2_AsStated ==
    \A c \in AllCalls : \A s \in Statuses :
        Done(c) /\ AllSettledWith(c, s) /\ (s >= 500 \/ s = 429) => C2_Conclusion(c, s)

\* every response of c went through main.js:183-192 down to transformedError
\* (its body was read and is not JSON null, no guard rejected, no callback
\* raised), and the response interceptor, if any, returned without putting
\* another Failure in place of the one it was given
C2_Unhooked(c, s) ==
    /\ calls[c].computed = calls[c].dispatches
    /\ calls[c].options.onResponse =>
          /\ calls[c].intercepted # <<>>
          /\ \/ calls[c].intercepted[1].isSuccess
             \/ calls[c].intercepted[1] =
                    createErrorResponse(calls[c].lastError[1], Num(s), calls[c].requestId)

(* C2 (amended): the same, for a call in which every response body was    *)
(* read and parsed to a non-null value, no error guard rejected, no        *)
(* callback raised and the response interceptor, if configured, returned   *)
(* without substituting another Failure.                                   *)
C2_PersistentStatus ==
    \A c \in AllCalls : \A s \in Statuses :
        Done(c) /\ AllSettledWith(c, s) /\ (s >= 500 \/ s = 429) /\ C2_Unhooked(c, s)
            => C2_Conclusion(c, s)

C2_Witness ==
    /\ Done(1) /\ AllSettledWith(1, 500) /\ C2_Unhooked(1, 500)
    /\ calls[1].options.retries = 2 /\ calls[1].options.retryDelay = 250
    /\ calls[1].options.onResponse
    /\ calls[1].sleeps = <<250, 500>>
    /\ MessageOf(1) = "T:b3"

(* C3: a call never issues more than retries+1 dispatches.                 *)
C3_DispatchBound ==
    \A c \in AllCalls : calls[c].dispatches <= calls[c].options.retries + 1

\* retries used up by one network error and one 429
C3_Witness ==
    /\ Done(1) /\ calls[1].options.retries = 2 /\ calls[1].dispatches = 3
    /\ calls[1].settled = 2 /\ calls[1].uniform = <<0>> /\ calls[1].lastErrorMessage # "b2"
    /\ OutcomeOf(1).isSuccess

(* C4: once the call's timer has fired during an attempt no further        *)
(* dispatch is issued and the call can only end with the Failure 408       *)
(* "Request timeout".                                                      *)
C4_TimeoutIsFinal ==
    \A c \in AllCalls :
        calls[c].fired # <<>> =>
            /\ calls[c].dispatches = calls[c].fired[1].dispatches
            /\ calls[c].pc \in {"fetch", "done"}
            /\ Done(c) => OutcomeOf(c) = createErrorResponse(Message("Request timeout"),
                                                              Num(408), calls[c].requestId)

\* the timer of the second attempt fired with one retry left
C4_Witness ==
    /\ Done(1) /\ calls[1].fired # <<>> /\ calls[1].fired[1].attempt = 1
    /\ calls[1].options.retries = 2 /\ calls[1].dispatches = 2
    /\ calls[1].options.abortController = NoHandle
    /\ OutcomeOf(1).code = Num(408)


----------------------------------------------------------------------------
(* Claims about the cache                                                  *)

\* the effective method, URL and body of two calls agree
SameRequest(c, d) ==
    /\ calls[c].requestContext.method = calls[d].requestContext.method
    /\ calls[c].requestContext.url = calls[d].requestContext.url
    /\ calls[c].requestContext.body = calls[d].requestContext.body

\* call c has got past its cache probe
Probing(c) == calls[c].pc \in {"idle", "onRequest"}

\* call c was settled by the transport with a Success
FreshSuccess(c) ==
    Done(c) /\ OutcomeOf(c).isSuccess /\ ~calls[c].fromCache /\ calls[c].dispatches >= 1

\* when the entry call c stored was stored; when call c probed the cache
StoredAt(c) == calls[c].wrote[1].item.timestamp
StartedAt(c) == calls[c].probed[1].at

\* calls c1 < c2 with caching enabled make the same request, c1 ended in a
\* Success of the transport, c2 has probed the cache, and every call made
\* in between with that request was served from the cache
C5_Scenario(c1, c2) ==
    /\ c1 < c2
    /\ calls[c1].options.cacheResponse /\ calls[c2].options.cacheResponse
    /\ FreshSuccess(c1)
    /\ SameRequest(c1, c2)
    /\ ~Probing(c2) /\ calls[c2].pc # "rejected"
    /\ \A d \in AllCalls :
          c1 < d /\ d < c2 /\ SameRequest(c1, d) => Done(d) /\ calls[d].fromCache

(* C5: with caching enabled, after a call ended in Success, a later call   *)
(* with the same method, URL and body that starts less than cacheTime      *)
(* after the entry was stored resolves at once with the Outcome of the     *)
(* first call and dispatches nothing; one that starts cacheTime or more    *)
(* after the entry was stored dispatches again.                            *)
C5_HitThenExpiry ==
    \A c1, c2 \in AllCalls :
        C5_Scenario(c1, c2) =>
            /\ calls[c1].wrote # <<>> /\ calls[c2].probed # <<>>
            /\ IF StartedAt(c2) - StoredAt(c1) < calls[c2].options.cacheTime
               THEN /\ Done(c2)
                    /\ OutcomeOf(c2) = OutcomeOf(c1)
                    /\ calls[c2].dispatches = 0
               ELSE /\ calls[c2].dispatches >= 1
                    /\ ~calls[c2].fromCache

\* first call stored, second served within cacheTime, third dispatched after it
C5_Witness ==
    /\ C5_Scenario(1, 2) /\ C5_Scenario(1, 3)
    /\ Done(2) /\ calls[2].dispatches = 0 /\ OutcomeOf(2) = OutcomeOf(1)
    /\ StartedAt(2) - StoredAt(1) < calls[2].options.cacheTime
    /\ Done(3) /\ calls[3].dispatches >= 1
    /\ StartedAt(3) - StoredAt(1) >= calls[3].options.cacheTime

\* the entry a call stored is still in the cache
StillCached(c) ==
    /\ calls[c].wrote # <<>>
    /\ calls[c].wrote[1].key \in DOMAIN responseCache
    /\ responseCache[calls[c].wrote[1].key] = calls[c].wrote[1].item

(* C6: right after clearSpecificCache(url, method, body) the entry stored  *)
(* by a caching-enabled call that ended in Success with that method, that  *)
(* effective URL and that body is no longer in the cache.                  *)
C6_ClearRemovesStored ==
    \A c \in AllCalls, url \in ClearUrls, method \in ClearMethods, body \in ClearBodies :
        /\ called = <<"clearSpecificCache", url, method, body>>
        /\ calls[c].options.cacheResponse /\ FreshSuccess(c)
        /\ calls[c].requestContext.method = method
        /\ calls[c].requestContext.url = url
        /\ calls[c].requestContext.body = body
        => ~StillCached(c)

\* the key the documentation gives for a GET without a body
GetKey(url) == "GET:" \o url \o ":"

(* C7: clearSpecificCache(url, "GET", null) removes the entry whose key is *)
(* GET:<url>: if there is one, and leaves every other entry, with its      *)
(* outcome and timestamp, as it was.                                       *)
C7_ClearFrame ==
    [][\A url \in ClearUrls :
          called' = <<"clearSpecificCache", url, "GET", NoBody>> =>
              /\ DOMAIN responseCache' = DOMAIN responseCache \ {GetKey(url)}
              /\ \A k \in DOMAIN responseCache' : responseCache'[k] = responseCache[k]
              /\ GetKey(url) \notin DOMAIN responseCache => responseCache' = responseCache
      ]_vars

\* the entry under GET:/u:$: has just been removed and another one is left
C7_Witness ==
    /\ called = <<"clearSpecificCache", "/u:$", "GET", NoBody>>
    /\ \E c \in AllCalls :
          /\ calls[c].wrote # <<>>
          /\ calls[c].wrote[1].key = GetKey("/u:$")
          /\ calls[c].wrote[1].item.timestamp = now
    /\ GetKey("/u:$") \notin DOMAIN responseCache
    /\ responseCache # <<>>

\* the response interceptor of call c returned
Intercepted(c) == Done(c) /\ calls[c].intercepted # <<>>

(* C8 as stated: the Outcome of a call whose response interceptor returned *)
(* is the Outcome the interceptor returned, and so is what the call stored *)
(* in the cache.                                                           *)
C8_AsStated ==
    \A c \in AllCalls :
        Intercepted(c) =>
            /\ OutcomeOf(c) = calls[c].intercepted[1]
            /\ calls[c].wrote # <<>> => calls[c].wrote[1].item.data = calls[c].intercepted[1]

(* C8: when the response interceptor returns, the Outcome of the call is   *)
(* the one the interceptor returned if that is of the same variant as the  *)
(* terminal Outcome the interceptor was given, and the terminal Outcome    *)
(* itself otherwise; that Outcome is what the call stores in the cache.    *)
C8_SameVariantAdopted ==
    [][\A c \in AllCalls :
          calls[c].pc = "onResponse" /\ calls'[c].intercepted # <<>> =>
              LET given == calls[c].result[1]
                  returned == calls'[c].intercepted[1]
                  wrote == calls'[c].wrote
              IN  /\ calls'[c].pc = "done"
                  /\ calls'[c].outcome =
                        <<IF returned.isSuccess = given.isSuccess THEN returned ELSE given>>
                  /\ wrote # <<>> =>
                        /\ wrote[1].item.data = calls'[c].outcome[1]
                        /\ responseCache'[wrote[1].key] = wrote[1].item
      ]_vars

\* a Failure returned for a terminal Success was dropped: the Success is
\* the result and is what was cached
C8_Witness ==
    /\ Intercepted(1)
    /\ ~calls[1].intercepted[1].isSuccess
    /\ OutcomeOf(1).isSuccess
    /\ StillCached(1) /\ calls[1].wrote[1].item.data = OutcomeOf(1)

(* C9: a call that finds a live entry under its key resolves at once with  *)
(* the stored Outcome: no dispatch, no timer armed, no retry, no backoff   *)
(* sleep, no call of the response interceptor, and the cache as it was.    *)
C9_HitBypasses ==
    [][\A c \in AllCalls :
          Probing(c) /\ ~Probing(c)' /\ calls'[c].pc # "rejected" =>
              LET key == calls'[c].cacheKey IN
              (/\ key # Null
               /\ key[1] \in DOMAIN responseCache
               /\ now - responseCache[key[1]].timestamp < calls'[c].options.cacheTime)
              => /\ calls'[c].pc = "done"
                 /\ calls'[c].outcome = <<responseCache[key[1]].data>>
                 /\ calls'[c].dispatches = 0
                 /\ calls'[c].timers = {}
                 /\ calls'[c].attempts = 0
                 /\ calls'[c].sleeps = <<>>
                 /\ calls'[c].onResponseCalls = 0
                 /\ responseCache' = responseCache
      ]_vars

\* the second call, which has a response interceptor, was served the entry
\* the first call stored, one tick after it was stored
C9_Witness ==
    /\ FreshSuccess(1) /\ StillCached(1)
    /\ Done(2) /\ calls[2].fromCache /\ calls[2].options.onResponse
    /\ OutcomeOf(2) = OutcomeOf(1)
    /\ StartedAt(2) = StoredAt(1) + 1
    /\ calls[2].dispatches = 0 /\ calls[2].onResponseCalls = 0

\* what a call with caching disabled has observably done to the cache
Untouched(c) ==
    calls[c].cacheKey = Null /\ calls[c].probed = <<>> /\ calls[c].wrote = <<>>
        /\ ~calls[c].fromCache

(* C10: no step of a call with caching disabled changes the cache, and     *)
(* such a call never probes it: once resolved it has dispatched, even if a *)
(* live entry for its method, URL and body exists.                         *)
C10_DisabledUntouched ==
    /\ [][\A c \in AllCalls :
            calls'[c] # calls[c] /\ ~calls'[c].options.cacheResponse =>
                responseCache' = responseCache]_vars
    /\ [](\A c \in AllCalls :
            ~calls[c].options.cacheResponse =>
                /\ Untouched(c)
                /\ Done(c) => calls[c].dispatches >= 1)

\* call 2, with caching disabled, ended in Success while the entry call 1
\* stored for the same request was live, and the entry is as call 1 left it
C10_Witness ==
    /\ FreshSuccess(1) /\ StillCached(1) /\ calls[1].options.cacheResponse
    /\ now - StoredAt(1) < calls[1].options.cacheTime
    /\ ~calls[2].options.cacheResponse /\ SameRequest(1, 2)
    /\ FreshSuccess(2)


----------------------------------------------------------------------------
(* Claims about what is stored                                             *)

\* the status of a Failure is in [400, 500)
ClientStatus(code) == code # Null /\ code[1] >= 400 /\ code[1] < 500

(* C11 as stated: a caching-enabled call that wrote a cache entry has      *)
(* terminated with a Success or with a Failure whose status is in          *)
(* [400, 500).                                                             *)
C11_AsStated ==
    \A c \in AllCalls :
        calls[c].options.cacheResponse /\ calls[c].wrote # <<>> =>
            /\ Done(c)
            /\ OutcomeOf(c).isSuccess \/ ClientStatus(OutcomeOf(c).code)

(* C11: a step of a caching-enabled call changes the cache only by         *)
(* deleting the stale entry it probed, or, when it terminates the call     *)
(* after a response, by setting the entry of its key to the Outcome it     *)
(* returns: a Success if the response was ok, a Failure if the status of   *)
(* the response is in [400, 500).  A call ended by a response of status    *)
(* >= 500, by a network error or by its timer leaves the cache as it was.  *)
C11_StoreOnlyTerminal ==
    [][\A c \in AllCalls :
          calls'[c] # calls[c] /\ responseCache' # responseCache =>
              LET key == calls'[c].cacheKey IN
              /\ calls[c].options.cacheResponse \/ calls'[c].options.cacheResponse
              /\ key # Null
              /\ \/ /\ Probing(c)
                    /\ ~calls'[c].fromCache
                    /\ calls'[c].probed[1].item # <<>>
                    /\ responseCache' = MapDelete(responseCache, key[1])
                 \/ /\ calls[c].pc \in {"okBody", "errBody", "onResponse"}
                    /\ calls'[c].pc = "done"
                    /\ LET status == calls[c].code
                           out == calls'[c].outcome[1]
                       IN  /\ responseCache' =
                                 MapSet(responseCache, key[1],
                                        [data |-> out, timestamp |-> now])
                           /\ out.isSuccess <=> IsOk(calls[c].options, status)
                           /\ ~out.isSuccess => status >= 400 /\ status < 500
      ]_vars

\* call 1 stored the 503 Failure its interceptor returned for a 404; call 2,
\* made after the entry expired, was ended by its timer and stored nothing
C11_Witness ==
    /\ Done(1) /\ calls[1].uniform = <<404>> /\ OutcomeOf(1).code = Num(503)
    /\ calls[1].wrote # <<>> /\ calls[1].wrote[1].item.data = OutcomeOf(1)
    /\ Done(2) /\ calls[2].fired # <<>> /\ OutcomeOf(2).code = Num(408)
    /\ calls[2].probed[1].item # <<>>
    /\ calls[2].wrote = <<>> /\ responseCache = <<>>


\* calls c1 < c2 with caching enabled make the same request and c2 has
\* probed the cache
C12_Pair(c1, c2) ==
    /\ c1 < c2
    /\ calls[c1].options.cacheResponse /\ calls[c2].options.cacheResponse
    /\ Done(c1)
    /\ SameRequest(c1, c2)
    /\ ~Probing(c2) /\ calls[c2].pc # "rejected"
    /\ \A d \in AllCalls :
          c1 < d /\ d < c2 /\ SameRequest(c1, d) => Done(d) /\ calls[d].fromCache

\* c2 resolved with the Outcome of c1 and dispatched nothing
Replayed(c1, c2) ==
    Done(c2) /\ OutcomeOf(c2) = OutcomeOf(c1) /\ calls[c2].dispatches = 0

(* C12 as stated: after a caching-enabled call terminated with a Failure   *)
(* whose status is in [400, 500) and that no error guard rejected, an      *)
(* identical call started less than cacheTime after the first one started  *)
(* (so less than cacheTime after it terminated) returns that Failure and   *)
(* dispatches nothing.                                                     *)
C12_AsStated ==
    \A c1, c2 \in AllCalls :
        /\ C12_Pair(c1, c2)
        /\ ~OutcomeOf(c1).isSuccess /\ ClientStatus(OutcomeOf(c1).code)
        /\ calls[c1].rejectedBy = <<>>
        /\ StartedAt(c2) - StartedAt(c1) < calls[c2].options.cacheTime
        => Replayed(c1, c2)

\* the last dispatch of c settled with a non-ok response whose status is in
\* [400, 500), its body was read, the error guard accepted it, and the
\* response interceptor, if configured, returned
ClientErrorTerminal(c) ==
    /\ Done(c) /\ ~calls[c].fromCache
    /\ calls[c].lastStatus >= 400 /\ calls[c].lastStatus < 500
    /\ calls[c].raised = <<>> /\ calls[c].lastError # <<>>
    /\ calls[c].options.onResponse => calls[c].intercepted # <<>>

(* C12: after a caching-enabled call terminated with the Failure of a      *)
(* response whose status is in [400, 500) (a 429 once retries are          *)
(* exhausted), the Failure it returned is stored, and an identical call    *)
(* started less than cacheTime after that returns the same Failure and     *)
(* dispatches nothing.                                                     *)
C12_ClientErrorReplayed ==
    \A c1, c2 \in AllCalls :
        C12_Pair(c1, c2) /\ ClientErrorTerminal(c1) =>
            /\ ~OutcomeOf(c1).isSuccess
            /\ calls[c1].wrote # <<>> /\ calls[c1].wrote[1].item.data = OutcomeOf(c1)
            /\ StartedAt(c2) - StoredAt(c1) < calls[c2].options.cacheTime
                  => Replayed(c1, c2)

\* a 429 after a 429 with one retry, replayed to the second call
C12_Witness ==
    /\ C12_Pair(1, 2) /\ ClientErrorTerminal(1)
    /\ calls[1].dispatches = 2 /\ calls[1].uniform = <<429>>
    /\ OutcomeOf(1).code = Num(429)
    /\ Replayed(1, 2) /\ calls[2].fromCache


----------------------------------------------------------------------------
(* Claims about retries and failures                                       *)

\* call c awaits the body of a non-ok response that is not a 429 and whose
\* status is below 500, and takes a step
ClientErrorStep(c) ==
    /\ calls[c].pc = "errBody"
    /\ calls[c].code < 500 /\ calls[c].code # 429
    /\ calls'[c] # calls[c]

\* the step neither sleeps nor dispatches
NoRetryStep(c) ==
    /\ calls'[c].dispatches = calls[c].dispatches
    /\ calls'[c].sleeps = calls[c].sleeps
    /\ calls'[c].attempts = calls[c].attempts

(* C13 as stated: a non-ok response whose status is below 500 and not 429  *)
(* is followed by no sleep and no dispatch, and leads to a Failure         *)
(* carrying that status.                                                   *)
C13_AsStated ==
    [][\A c \in AllCalls :
          ClientErrorStep(c) =>
              /\ NoRetryStep(c)
              /\ \/ /\ calls'[c].pc = "done"
                    /\ ~calls'[c].outcome[1].isSuccess
                    /\ calls'[c].outcome[1].code = Num(calls[c].code)
                 \/ /\ calls'[c].pc = "onResponse"
                    /\ ~calls'[c].result[1].isSuccess
                    /\ calls'[c].result[1].code = Num(calls[c].code)
      ]_vars

(* C13: when the body of a non-ok response whose status is below 500 and   *)
(* not 429 has been read and parsed to a non-null value, the error guard   *)
(* accepted and the transformer returned, the terminal Failure carrying    *)
(* that status is produced at once, without sleep or dispatch, whatever    *)
(* retries remain; it is returned, or handed to the response interceptor,  *)
(* after whose return the call ends with a Failure.  A step from such a    *)
(* response goes to sleep only through the catch block.                    *)
C13_ClientErrorFinal ==
    [][\A c \in AllCalls :
          /\ ClientErrorStep(c) /\ calls'[c].computed = calls[c].computed + 1 =>
                LET failure == createErrorResponse(calls'[c].lastError[1],
                                                   Num(calls[c].code), calls[c].requestId)
                IN  /\ NoRetryStep(c)
                    /\ IF calls[c].options.onResponse
                       THEN calls'[c].pc = "onResponse" /\ calls'[c].result = <<failure>>
                       ELSE calls'[c].pc = "done" /\ calls'[c].outcome = <<failure>>
          /\ ClientErrorStep(c) /\ calls'[c].pc = "sleep" =>
                calls'[c].computed = calls[c].computed
          /\ (/\ calls[c].pc = "onResponse" /\ ~calls[c].result[1].isSuccess
              /\ calls[c].lastStatus < 500 /\ calls[c].lastStatus # 429
              /\ calls'[c].intercepted # <<>>) =>
                /\ NoRetryStep(c)
                /\ calls'[c].pc = "done" /\ ~calls'[c].outcome[1].isSuccess
      ]_vars

\* a 404 with two retries left: one dispatch, no sleep
C13_Witness ==
    /\ Done(1) /\ calls[1].options.retries = 2 /\ ~calls[1].options.onResponse
    /\ calls[1].lastStatus = 404 /\ calls[1].computed = 1
    /\ calls[1].dispatches = 1 /\ calls[1].sleeps = <<>>
    /\ OutcomeOf(1).code = Num(404)


(* C14: a call with retries = N whose every dispatch raised a recognised   *)
(* network error has issued N+1 dispatches, slept retryDelay * 2^0, ...,   *)
(* retryDelay * 2^(N-1) between them in that order, and resolved with a    *)
(* Failure of null status carrying the message of the last error.          *)
C14_NetworkErrorsExhaust ==
    \A c \in AllCalls :
        Done(c) /\ calls[c].dispatches >= 1 /\ calls[c].netErrors = calls[c].dispatches =>
            /\ calls[c].dispatches = calls[c].options.retries + 1
            /\ calls[c].sleeps =
                  BackoffDelays(calls[c].options.retryDelay, calls[c].options.retries)
            /\ calls[c].raised # <<>> /\ isNetworkError(calls[c].raised[1])
            /\ OutcomeOf(c) = createErrorResponse(Message(calls[c].raised[1].message),
                                                  Null, calls[c].requestId)

\* three network errors with two retries; the last one is "NetworkError b"
C14_Witness ==
    /\ Done(1) /\ calls[1].options.retries = 2 /\ calls[1].options.retryDelay = 1000
    /\ calls[1].netErrors = 3 /\ calls[1].dispatches = 3
    /\ calls[1].sleeps = <<1000, 2000>>
    /\ OutcomeOf(1).code = Null /\ MessageOf(1) = "NetworkError b"


\* fetch() of the current attempt of c raised an exception that is neither
\* an AbortError nor a recognised network error
RaisedOther(c) ==
    /\ calls[c].raised # <<>>
    /\ ~isAbortError(calls[c].raised[1]) /\ ~isNetworkError(calls[c].raised[1])

(* C15 as stated: after the transport raised an exception that is neither  *)
(* a cancellation nor a recognised network error the call has terminated,  *)
(* without retry, with a Failure of null status carrying the message of    *)
(* the exception.                                                          *)
C15_AsStated ==
    \A c \in AllCalls :
        RaisedOther(c) =>
            /\ Done(c)
            /\ OutcomeOf(c) = createErrorResponse(Message(calls[c].raised[1].message),
                                                  Null, calls[c].requestId)

(* C15: after the transport raised an exception that is neither a          *)
(* cancellation nor a recognised network error the call has terminated,    *)
(* without retry, with a Failure of null status whose message is that of   *)
(* the exception if it is an Error, and "Unknown error occurred" if not.   *)
C15_OtherErrorFinal ==
    \A c \in AllCalls :
        RaisedOther(c) =>
            /\ Done(c)
            /\ OutcomeOf(c) =
                  createErrorResponse(
                      Message(IF isError(calls[c].raised[1])
                              THEN calls[c].raised[1].message
                              ELSE "Unknown error occurred"),
                      Null, calls[c].requestId)

\* a TypeError "fetch failed" on the second dispatch, with one retry left
C15_Witness ==
    /\ Done(1) /\ calls[1].options.retries = 2
    /\ calls[1].dispatches = 2 /\ calls[1].attempts = 1
    /\ calls[1].raised = <<NetworkErr("fetch failed")>>
    /\ OutcomeOf(1).code = Null /\ MessageOf(1) = "fetch failed"


----------------------------------------------------------------------------
(* Claims about guards and transformers                                    *)

\* the named guard of call c returned false
RejectedBy(c, guard) ==
    calls[c].rejectedBy # <<>> /\ calls[c].rejectedBy[1].guard = guard

(* C16: once the error guard has rejected the payload of a non-ok response *)
(* the call has terminated with the Failure "Error validation failed"      *)
(* whose status is the status of that response; the transformer was not    *)
(* applied to the payload, nothing was slept and nothing dispatched after  *)
(* that response.                                                          *)
C16_ErrorGuardRejects ==
    \A c \in AllCalls :
        RejectedBy(c, "errorGuard") =>
            /\ Done(c)
            /\ calls[c].rejectedBy[1].code = calls[c].lastStatus
            /\ OutcomeOf(c) = createErrorResponse(Message("Error validation failed"),
                                                  Num(calls[c].lastStatus),
                                                  calls[c].requestId)
            /\ calls[c].lastError = <<>>
            /\ calls[c].raised = <<>>
            /\ Len(calls[c].sleeps) = calls[c].dispatches - 1

\* a 500 rejected by the guard on the first dispatch, two retries left
C16_Witness ==
    /\ RejectedBy(1, "errorGuard") /\ Done(1)
    /\ calls[1].options.retries = 2 /\ calls[1].lastStatus = 500
    /\ calls[1].dispatches = 1 /\ calls[1].sleeps = <<>>
    /\ MessageOf(1) = "Error validation failed" /\ OutcomeOf(1).code = Num(500)

(* C17: once the response guard has rejected the parsed body of an ok,     *)
(* non-binary response the call has terminated with the Failure "Response  *)
(* validation failed" whose status is the status of that response, a       *)
(* status the call treats as ok; nothing was slept and nothing dispatched  *)
(* after that response, whatever the retries left.                         *)
C17_ResponseGuardRejects ==
    \A c \in AllCalls :
        RejectedBy(c, "responseGuard") =>
            /\ Done(c)
            /\ calls[c].options.responseGuard
            /\ calls[c].rejectedBy[1].code = calls[c].lastStatus
            /\ IsOk(calls[c].options, calls[c].lastStatus)
            /\ OutcomeOf(c) = createErrorResponse(Message("Response validation failed"),
                                                  Num(calls[c].lastStatus),
                                                  calls[c].requestId)
            /\ calls[c].raised = <<>>
            /\ Len(calls[c].sleeps) = calls[c].dispatches - 1

\* a 200 rejected by the guard on the first dispatch, one retry left
C17_Witness ==
    /\ RejectedBy(1, "responseGuard") /\ Done(1)
    /\ calls[1].options.retries = 1 /\ calls[1].attempts = 0
    /\ calls[1].lastStatus = 200 /\ calls[1].dispatches = 1 /\ calls[1].sleeps = <<>>
    /\ MessageOf(1) = "Response validation failed" /\ OutcomeOf(1).code = Num(200)

\* the value the last response of c parsed to, whatever its kind
IsRawParsed(c, value) ==
    value.kind \in BodyKinds \cup {"base64"} /\ value.v = ContentOf(calls[c].dispatches)

(* C18: the response transformer is invoked only by a call that has no     *)
(* response guard, and only on a structured, non-null parsed value; a call *)
(* with a guard and no response interceptor that succeeds carries the      *)
(* parsed value of its last response as it was parsed.                     *)
C18_GuardSkipsTransformer ==
    \A c \in AllCalls :
        /\ calls[c].transformed # <<>> =>
              /\ ~calls[c].options.responseGuard
              /\ calls[c].options.responseTransformer
              /\ calls[c].transformed[1].kind \in {"obj", "objMsg"}
        /\ (Done(c) /\ calls[c].options.responseGuard /\ ~calls[c].options.onResponse
               /\ OutcomeOf(c).isSuccess) =>
              IsRawParsed(c, OutcomeOf(c).response[1])

\* guard and transformer both configured, a structured body accepted
C18_Witness ==
    /\ Done(1) /\ calls[1].options.responseGuard /\ calls[1].options.responseTransformer
    /\ ~calls[1].options.onResponse
    /\ OutcomeOf(1).isSuccess /\ OutcomeOf(1).response[1].kind = "obj"
    /\ calls[1].transformed = <<>>

\* no guard: the transformer was given the structured body and mapped it
C18_WitnessTransformed ==
    /\ Done(1) /\ ~calls[1].options.responseGuard /\ calls[1].transformed # <<>>
    /\ OutcomeOf(1).isSuccess /\ OutcomeOf(1).response[1].kind = "mapped"

----------------------------------------------------------------------------
(* Claims about interceptors                                               *)

\* the context built from the options of c, as handed to the interceptor
GivenContext(c) ==
    LET o == calls[c].options IN
    [url |-> buildUrl(o.url, o.params), method |-> o.method,
     headers |-> AssembleHeaders(o), body |-> o.body, requestId |-> calls[c].requestId]

\* the context the request interceptor of c returns
ReturnedContext(c) == onRequest(calls[c].options.onRequest, GivenContext(c))

(* C19: a call with a request interceptor has invoked it exactly once,     *)
(* however many dispatches it made; while the interceptor is awaited the   *)
(* cache has not been probed and nothing has been dispatched; afterwards   *)
(* the cache key is computed from the context the interceptor returned and *)
(* every dispatch of the call was made with that context.                  *)
C19_RequestInterceptorOnce ==
    \A c \in AllCalls :
        (calls[c].pc # "idle" /\ calls[c].options.onRequest # "none") =>
            /\ calls[c].onRequestCalls = 1
            /\ calls[c].pc = "onRequest" =>
                  /\ calls[c].probed = <<>> /\ calls[c].dispatches = 0
                  /\ calls[c].sent = <<>>
            /\ calls[c].pc \notin {"onRequest", "rejected"} =>
                  /\ calls[c].cacheKey = CacheKeyOf(calls[c].options, ReturnedContext(c))
                  /\ calls[c].dispatches > 0 =>
                        calls[c].sent = <<[context |-> ReturnedContext(c), every |-> TRUE]>>

\* an interceptor that replaced method, URL, headers and body; the call
\* retried once and stored its outcome under the key of the new context
C19_Witness ==
    /\ Done(1) /\ calls[1].options.onRequest = "replace"
    /\ calls[1].onRequestCalls = 1 /\ calls[1].dispatches = 2
    /\ calls[1].sent[1].context.url = "/r" /\ calls[1].sent[1].context.method = "POST"
    /\ calls[1].sent[1].context.body = StrBody("r")
    /\ calls[1].sent[1].context.headers = {<<"X-Trace", "1">>}
    /\ ReturnedContext(1) # GivenContext(1)
    /\ calls[1].cacheKey = <<"POST:/r:$r">>
    /\ calls[1].cacheKey # CacheKeyOf(calls[1].options, GivenContext(1))
    /\ "POST:/r:$r" \in DOMAIN responseCache

\* the named interceptor of c raised and c has dispatched nothing since
JustRaised(c, hook) ==
    /\ calls[c].thrownBy # <<>>
    /\ calls[c].thrownBy[1].hook = hook
    /\ calls[c].thrownBy[1].at = calls[c].dispatches

C20_WitnessRetried ==
    /\ calls[1].thrownBy # <<>> /\ calls[1].thrownBy[1].hook = "onResponse"
    /\ calls[1].thrownBy[1].at = 1 /\ calls[1].dispatches = 2
    /\ Done(1) /\ OutcomeOf(1).isSuccess

----------------------------------------------------------------------------
(* Claims about cancellation by the caller                                 *)

\* the caller aborted the controller of c while c was at one of pcs
AbortedWhile(c, pcs) == calls[c].abortedAt # <<>> /\ calls[c].abortedAt[1].pc \in pcs

IsTimeoutFailure(o, requestId) ==
    o = createErrorResponse(Message("Request timeout"), Num(408), requestId)

(* C21 as stated: a call whose controller the caller aborted before the    *)
(* call resolved resolves with the Failure "Request timeout" of status 408 *)
C21_AsStated ==
    \A c \in AllCalls :
        (calls[c].abortedAt # <<>> /\ Done(c)) =>
            IsTimeoutFailure(OutcomeOf(c), calls[c].requestId)

(* C21, amended: a call whose controller the caller aborted while an       *)
(* attempt was in flight or during a backoff sleep resolves with the       *)
(* Failure "Request timeout" of status 408; aborted in flight it           *)
(* dispatches nothing more, aborted during a sleep it dispatches once      *)
(* more.  Wherever the abort arrived, at most one dispatch follows it, and *)
(* a call that dispatched after it resolves with that Failure.             *)
C21_ExternalAbort ==
    \A c \in AllCalls :
        calls[c].abortedAt # <<>> =>
            LET at == calls[c].abortedAt[1] IN
            /\ at.pc # "onRequest" => calls[c].pc # "rejected"
            /\ calls[c].dispatches <= at.dispatches + 1
            /\ at.pc = "fetch" => calls[c].dispatches = at.dispatches
            /\ (Done(c) /\ (at.pc \in {"fetch", "sleep"}
                             \/ calls[c].dispatches > at.dispatches)) =>
                  IsTimeoutFailure(OutcomeOf(c), calls[c].requestId)
            /\ (Done(c) /\ at.pc = "sleep") => calls[c].dispatches = at.dispatches + 1

\* aborted during the first backoff sleep with two retries configured: one
\* more dispatch, then 408
C21_Witness ==
    /\ AbortedWhile(1, {"sleep"}) /\ Done(1)
    /\ calls[1].options.retries = 2 /\ calls[1].abortedAt[1].dispatches = 1
    /\ calls[1].dispatches = 2 /\ calls[1].attempts = 1
    /\ IsTimeoutFailure(OutcomeOf(1), calls[1].requestId)

\* aborted while the first attempt was in flight, retries left
C21_WitnessInFlight ==
    /\ AbortedWhile(1, {"fetch"}) /\ Done(1)
    /\ calls[1].options.retries = 2 /\ calls[1].dispatches = 1
    /\ IsTimeoutFailure(OutcomeOf(1), calls[1].requestId)

----------------------------------------------------------------------------
(* Claims about createClient                                               *)

\* the request interceptor that a request of a client is due to run: the
\* call-level one when there is one, else the client-level one
DueOnRequest(q) ==
    IF q.options.o.onRequest # "none" THEN q.options.o.onRequest ELSE q.config.onRequest

DueOnResponseName(q) ==
    IF q.options.o.onResponse THEN q.options.o.onResponseName ELSE q.config.onResponseName

\* the request options q.options with the client-level interceptors of
\* q.config passed by the caller for the hooks the caller left out
WithClientHooks(q) ==
    [q.options EXCEPT
        !.o = [@ EXCEPT !.onRequest = DueOnRequest(q),
                        !.onResponse = @ \/ q.config.onResponse,
                        !.onResponseName = DueOnResponseName(q)]]

(* C22: a request made through a client runs, for each hook, the           *)
(* interceptor given with the request when there is one and the client's   *)
(* otherwise, and no other: the request interceptor ran once and the       *)
(* context used is what that interceptor alone returns; every response     *)
(* interceptor invocation is of the one due; and the call is the one a     *)
(* caller passing the client's interceptors itself would get.              *)
C22_CallLevelWins ==
    \A c \in AllCalls :
        (calls[c].client # NoClient /\ calls[c].pc # "resolveHeaders") =>
            LET q == calls[c].client[1] IN
            /\ calls[c].options.onRequest = DueOnRequest(q)
            /\ calls[c].onRequestCalls = IF DueOnRequest(q) = "none" THEN 0 ELSE 1
            /\ calls[c].pc # "onRequest" =>
                  calls[c].requestContext = onRequest(DueOnRequest(q), GivenContext(c))
            /\ \A i \in 1 .. Len(calls[c].onResponseBy) :
                  calls[c].onResponseBy[i] = DueOnResponseName(q)
            /\ Len(calls[c].onResponseBy) = calls[c].onResponseCalls
            /\ calls[c].onResponseCalls > 0 =>
                  q.options.o.onResponse \/ q.config.onResponse
            /\ calls[c].options =
                  request([q.config EXCEPT !.onRequest = "none", !.onResponse = FALSE,
                                           !.onResponseName = ""],
                          q.method, q.path, WithClientHooks(q))

\* both levels have both interceptors: the URL was rewritten by the
\* request's own, the client's header was not set, and "own" ran
C22_Witness ==
    /\ Done(1) /\ calls[1].client # NoClient
    /\ calls[1].client[1].config.onRequest = "stamp"
    /\ calls[1].client[1].config.onResponseName = "global"
    /\ calls[1].client[1].options.o.onRequest = "rewrite"
    /\ calls[1].client[1].options.o.onResponseName = "own"
    /\ calls[1].requestContext.url = "/r"
    /\ ~HeadersHas(calls[1].requestContext.headers, "X-Client")
    /\ calls[1].onResponseBy = <<"own">>

\* the request gives no interceptor: the client's ran
C22_WitnessClientLevel ==
    /\ Done(1) /\ calls[1].client # NoClient
    /\ calls[1].client[1].options.o.onRequest = "none"
    /\ ~calls[1].client[1].options.o.onResponse
    /\ HeadersHas(calls[1].requestContext.headers, "X-Client")
    /\ calls[1].requestContext.url = "http://h/p"
    /\ calls[1].onResponseBy = <<"global">>

----------------------------------------------------------------------------
(* Claims about request ids                                                *)

(* C23: the Outcome of a call carries the requestId allocated when the     *)
(* call entered the pipeline, which is the id in the context given to its  *)
(* request interceptor, however many attempts it made; and the Outcomes of *)
(* two distinct calls carry different requestIds, served from the cache or *)
(* not.                                                                    *)
C23_OwnRequestId ==
    /\ \A c \in AllCalls :
          Done(c) => /\ OutcomeOf(c).requestId = calls[c].requestId
                     /\ GivenContext(c).requestId = calls[c].requestId
    /\ \A c, d \in AllCalls :
          (c # d /\ Done(c) /\ Done(d)) => OutcomeOf(c).requestId # OutcomeOf(d).requestId

----------------------------------------------------------------------------
(* Claims about getCacheStats                                              *)

\* the elements of a sequence
Range(seq) == {seq[i] : i \in 1 .. Len(seq)}

(* C24: a step that is a call of getCacheStats leaves the cache and every  *)
(* call as they were; the size it returns is the number of keys it         *)
(* returns, which are the keys of the cache; and when the cache is the one *)
(* the previous getCacheStats was called on, it returns what that one      *)
(* returned.                                                               *)
C24_StatsReadOnly ==
    [][(called' # <<>> /\ called'[1] = "getCacheStats") =>
          LET result == called'[2] IN
          /\ responseCache' = responseCache /\ cacheOrder' = cacheOrder
          /\ calls' = calls
          /\ result.size = Len(result.keys)
          /\ Range(result.keys) = DOMAIN responseCache
          /\ Cardinality(Range(result.keys)) = result.size
          /\ (stats # <<>> /\ stats[1].cache = responseCache
                /\ stats[1].order = cacheOrder) => result = stats[1].result
      ]_vars

\* getCacheStats called again on a cache of two entries that had not
\* changed since the call before
C24_Witness ==
    /\ stats # <<>> /\ stats[1].again
    /\ stats[1].result.size = 2 /\ Len(stats[1].result.keys) = 2
    /\ stats[1].cache = responseCache
    /\ called # <<>> /\ called[1] = "getCacheStats" /\ called[2] = stats[1].result

----------------------------------------------------------------------------
(* Claims about the URL builder                                            *)

(* C25: when the parameter object is absent or yields no key=value pair    *)
(* (it is empty, or every value in it is null or undefined) buildUrl       *)
(* returns the base URL.                                                   *)
C25_NoPairsNoQuery ==
    (called # <<>> /\ called[1] = "buildUrl") =>
        ((~called[3].present \/ \A i \in DOMAIN called[3].entries :
                                    called[3].entries[i].value.t = "null")
            => called[4] = called[2])

----------------------------------------------------------------------------
(* Claims about the status of a Failure                                    *)

IsFailure(c) == Done(c) /\ ~OutcomeOf(c).isSuccess

C26_WitnessMixed ==
    /\ IsFailure(1) /\ OutcomeOf(1).code = Null
    /\ calls[1].settled = 1 /\ calls[1].dispatches = 2
    /\ calls[1].raised = <<PlainErr>> /\ calls[1].caught = <<PlainErr>>

----------------------------------------------------------------------------
(* Claims about the timeout timer                                          *)

(* C27: while an attempt is in flight the only timer of the call that can  *)
(* be armed is the one of that attempt, and it is armed unless it has      *)
(* fired during the attempt; at every other moment (the body is being      *)
(* read, an interceptor is awaited, the call sleeps before a retry, the    *)
(* call has returned or rejected) no timer of the call is armed.           *)
C27_NoTimerLeftArmed ==
    \A c \in AllCalls :
        /\ Cardinality(calls[c].timers) <= 1
        /\ calls[c].pc = "fetch" =>
              \/ calls[c].timers = {calls[c].attempts}
              \/ /\ calls[c].timers = {}
                 /\ calls[c].fired # <<>>
                 /\ calls[c].fired[1] = [attempt |-> calls[c].attempts,
                                         dispatches |-> calls[c].dispatches]
        /\ calls[c].pc # "fetch" => calls[c].timers = {}
        /\ calls[c].fired # <<>> => calls[c].fired[1].attempt + 1 = calls[c].fired[1].dispatches

\* three attempts, a network error and a retried response among them, then
\* a guard rejection: returned with no timer armed, none having fired
C27_Witness ==
    /\ Done(1) /\ calls[1].dispatches = 3 /\ calls[1].netErrors >= 1
    /\ calls[1].settled = 2 /\ calls[1].rejectedBy # <<>>
    /\ calls[1].timers = {} /\ calls[1].fired = <<>>

----------------------------------------------------------------------------
(* Claims about termination                                                *)

(* C28: a call never makes more than retries + 1 dispatches, and a call    *)
(* that has started, each of whose awaited operations completes,           *)
(* eventually returns its Outcome.                                         *)
C28_Terminates ==
    /\ [](\A c \in AllCalls : calls[c].dispatches <= calls[c].options.retries + 1)
    /\ \A c \in AllCalls : (calls[c].pc # "idle") ~> Done(c)

\* every attempt used: retries + 1 dispatches, then the Outcome
C28_Witness ==
    /\ Done(1) /\ calls[1].options.retries = MaxRetries
    /\ calls[1].dispatches = MaxRetries + 1
    /\ Len(calls[1].sleeps) = MaxRetries

----------------------------------------------------------------------------
(* Claims about concurrent calls                                           *)

\* nothing of c's own cancelled it: its timer never fired and the caller
\* never aborted its controller
NotCancelled(c) == calls[c].fired = <<>> /\ calls[c].abortedAt = <<>>

(* C29: with caching disabled a call is cancelled only by its own timer or *)
(* by the caller: a call whose timer never fired and whose controller the  *)
(* caller never aborted does not end with the Failure "Request timeout",   *)
(* and the signal of its attempt in flight is not aborted, whatever the    *)
(* other calls in flight do.                                               *)
C29_Independent ==
    \A c \in AllCalls :
        NotCancelled(c) =>
            /\ Done(c) => ~IsTimeoutFailure(OutcomeOf(c), calls[c].requestId)
            /\ calls[c].pc = "fetch" => ~SignalAborted(calls[c], extAborted)

\* c has probed the cache under its key and has not yet returned
BetweenProbeAndStore(c) ==
    /\ calls[c].cacheKey # Null
    /\ calls[c].pc \in {"fetch", "errBody", "okBody", "onResponse", "sleep"}

\* the entry of the cache under key k, if any
EntryAt(cache, k) == IF k \in DOMAIN cache THEN <<cache[k]>> ELSE <<>>

(* C30 as stated: while a call is between its probe and its store, no step *)
(* of another call and no cache-management call changes the entry under    *)
(* the key of the call, and no other call probes that key.                 *)
C30_AsStated ==
    [][\A c \in AllCalls :
          (BetweenProbeAndStore(c) /\ calls'[c] = calls[c]) =>
              /\ EntryAt(responseCache', calls[c].cacheKey[1])
                    = EntryAt(responseCache, calls[c].cacheKey[1])
              /\ \A d \in AllCalls \ {c} :
                    (calls'[d].probed # calls[d].probed) =>
                        calls'[d].cacheKey # calls[c].cacheKey
      ]_vars

(* C30, amended: each step performs at most one cache operation: it leaves *)
(* the cache as it was, or empties it, or sets or deletes the entry of one *)
(* key; and a call that stores sets the entry of its key to its own        *)
(* Outcome and the current time whatever the entry was, including an entry *)
(* another call stored after this call had probed.                         *)
C30_SingleOperations ==
    [][/\ \/ responseCache' = <<>>
          \/ Cardinality({k \in DOMAIN responseCache \cup DOMAIN responseCache' :
                             EntryAt(responseCache', k) # EntryAt(responseCache, k)}) <= 1
       /\ \A c \in AllCalls :
             (Done(c)' /\ ~Done(c) /\ ~calls'[c].fromCache /\ calls[c].cacheKey # Null
                /\ (OutcomeOf(c)'.isSuccess
                      \/ (calls[c].code >= 400 /\ calls[c].code < 500))) =>
                 /\ calls[c].cacheKey[1] \in DOMAIN responseCache'
                 /\ responseCache'[calls[c].cacheKey[1]]
                       = [data |-> OutcomeOf(c)', timestamp |-> now]
      ]_vars

\* call 1 probed and missed, call 2 then stored under the same key, and
\* call 1 stored over it
C30_Witness ==
    /\ Done(1) /\ Done(2)
    /\ calls[1].cacheKey = calls[2].cacheKey
    /\ calls[1].probed # <<>> /\ calls[1].probed[1].item = <<>>
    /\ calls[1].wrote # <<>> /\ calls[2].wrote # <<>>
    /\ calls[1].cacheKey[1] \in DOMAIN responseCache
    /\ responseCache[calls[1].cacheKey[1]].data = OutcomeOf(1)
    /\ OutcomeOf(1) # OutcomeOf(2)

----------------------------------------------------------------------------
(* Claims about the order of the attempts of a call                        *)

\* the dispatches of c the transport has neither settled nor failed
Unsettled(c) ==
    calls[c].dispatches - calls[c].settled - calls[c].netErrors
        - (IF calls[c].raised # <<>> /\ ~isNetworkError(calls[c].raised[1]) THEN 1 ELSE 0)

(* C31: a call has one dispatch in flight while it awaits the transport    *)
(* and none at any other moment; and a step that dispatches makes one      *)
(* dispatch, with no timer of the call armed, and, when it is not the      *)
(* first, it is the end of the backoff sleep that followed the previous    *)
(* attempt, every earlier dispatch having settled or failed.               *)
C31_SequentialAttempts ==
    /\ [](\A c \in AllCalls : Unsettled(c) = IF calls[c].pc = "fetch" THEN 1 ELSE 0)
    /\ [][\A c \in AllCalls :
            calls'[c].dispatches # calls[c].dispatches =>
                /\ calls'[c].dispatches = calls[c].dispatches + 1
                /\ calls'[c].pc = "fetch"
                /\ calls[c].timers = {}
                /\ calls'[c].timers = {calls'[c].attempts}
                /\ calls[c].dispatches = 0 => calls[c].pc \in {"idle", "onRequest"}
                /\ calls[c].dispatches > 0 =>
                      /\ calls[c].pc = "sleep"
                      /\ Len(calls[c].sleeps) = calls[c].dispatches
                      /\ calls[c].attempts = calls[c].dispatches
                      /\ calls[c].settled + calls[c].netErrors = calls[c].dispatches
       ]_vars

\* the third attempt is in flight, after a network error and a retried
\* response, each followed by its sleep
C31_Witness ==
    /\ calls[1].pc = "fetch" /\ calls[1].dispatches = 3
    /\ calls[1].netErrors = 1 /\ calls[1].settled = 1
    /\ Len(calls[1].sleeps) = 2 /\ calls[1].timers = {2}

(* C32: the retries of a call, whatever caused each of them, are counted   *)
(* by one counter: the call has slept once per retry, the k-th sleep is    *)
(* retryDelay * 2^(k-1), and the retries never outnumber options.retries.  *)
C32_SharedAttemptCounter ==
    \A c \in AllCalls :
        /\ Len(calls[c].sleeps) = calls[c].attempts
        /\ calls[c].attempts <= calls[c].options.retries
        /\ calls[c].sleeps = BackoffDelays(calls[c].options.retryDelay, calls[c].attempts)
        /\ calls[c].dispatches <= calls[c].attempts + 1
        /\ calls[c].pc \in {"fetch", "errBody", "okBody", "onResponse"} =>
              calls[c].dispatches = calls[c].attempts + 1

\* the first retry followed a 500, the second a network error
C32_Witness ==
    /\ calls[1].dispatches = 3 /\ calls[1].options.retryDelay = 250
    /\ calls[1].netErrors = 1 /\ calls[1].settled = 1 /\ calls[1].lastStatus = 500
    /\ calls[1].lastErrorMessage = "b1"
    /\ calls[1].sleeps = <<250, 500>>

\* the first retry followed a network error, the second a 429
C32_WitnessNetworkFirst ==
    /\ calls[1].dispatches = 3 /\ calls[1].options.retryDelay = 1000
    /\ calls[1].netErrors = 1 /\ calls[1].settled = 1 /\ calls[1].lastStatus = 429
    /\ calls[1].lastErrorMessage = "b2"
    /\ calls[1].sleeps = <<1000, 2000>>

\* c returns in this step
Returns(c) == calls[c].pc # "done" /\ calls'[c].pc = "done"

(* C33: the attempt counter of a call stays within 0 .. retries, and a     *)
(* call returns either from the cache probe or from inside an iteration of *)
(* the dispatch loop, that is while it awaits the transport, a body or the *)
(* response interceptor: it never returns at the loop test, which is       *)
(* evaluated on entry and at the end of a backoff sleep, so the Failure    *)
(* made after the loop is never its Outcome.                               *)
C33_ReturnsInsideLoop ==
    /\ [](\A c \in AllCalls :
            /\ calls[c].attempts \in 0 .. calls[c].options.retries
            /\ (Done(c) /\ ~calls[c].fromCache) => calls[c].dispatches >= 1)
    /\ [][\A c \in AllCalls :
            Returns(c) =>
                \/ calls'[c].fromCache /\ calls'[c].dispatches = 0
                \/ /\ calls[c].pc \in {"fetch", "errBody", "okBody", "onResponse"}
                   /\ calls'[c].dispatches = calls[c].dispatches
       ]_vars

\* every retry used, each after a 500, and the last attempt answered 500
\* too: the Failure carries that status and the message of the last
\* response, not the message recorded for the retry before it
C33_Witness ==
    /\ IsFailure(1) /\ calls[1].options.retries = MaxRetries
    /\ calls[1].attempts = MaxRetries /\ calls[1].dispatches = MaxRetries + 1
    /\ calls[1].uniform = <<500>> /\ calls[1].settled = calls[1].dispatches
    /\ OutcomeOf(1).code = Num(500)
    /\ calls[1].lastErrorMessage = ContentOf(MaxRetries)
    /\ MessageOf(1) = ContentOf(MaxRetries + 1)

----------------------------------------------------------------------------
(* Claims about the freshness of cache entries                             *)

\* c probes the cache in this step
Probes(c) == calls[c].probed = <<>> /\ calls'[c].probed # <<>>

\* what c found under its key is an entry younger than c's own cacheTime
FoundLive(r) ==
    /\ r.probed[1].item # <<>>
    /\ r.probed[1].at - r.probed[1].item[1].timestamp < r.options.cacheTime

(* C34: a caching-enabled call is served from the cache exactly when the   *)
(* entry it found under its key is younger than its own cacheTime, and is  *)
(* then served the data of that entry, the cache being left as it was; a   *)
(* call that finds an older entry deletes it in the step of the probe and  *)
(* dispatches; and when such a call, or one that found nothing, returns    *)
(* without storing, its key is absent from the cache.                      *)
C34_StaleNeverServed ==
    /\ [](\A c \in AllCalls :
            calls[c].probed # <<>> =>
                /\ calls[c].fromCache <=> FoundLive(calls[c])
                /\ calls[c].fromCache =>
                      /\ Done(c) /\ calls[c].dispatches = 0
                      /\ OutcomeOf(c) = calls[c].probed[1].item[1].data
                /\ ~calls[c].fromCache => calls[c].dispatches >= 1)
    /\ [][\A c \in AllCalls :
            /\ Probes(c) =>
                  LET k == calls'[c].cacheKey[1] IN
                  /\ calls'[c].probed[1].at = now
                  /\ calls'[c].probed[1].item = EntryAt(responseCache, k)
                  /\ responseCache' = IF FoundLive(calls'[c]) THEN responseCache
                                      ELSE MapDelete(responseCache, k)
            /\ (Returns(c) /\ calls'[c].cacheKey # Null /\ ~calls'[c].fromCache
                  /\ calls'[c].wrote = <<>>) =>
                  calls'[c].cacheKey[1] \notin DOMAIN responseCache'
       ]_vars

\* call 1 stored with cacheTime 2; call 2, whose cacheTime is 1, found the
\* entry aged 1, deleted it, dispatched and ended with a Failure that is
\* not stored: the key is absent
C34_Witness ==
    /\ Done(1) /\ Done(2)
    /\ calls[1].options.cacheTime = 2 /\ calls[2].options.cacheTime = 1
    /\ calls[1].wrote # <<>> /\ calls[2].probed # <<>>
    /\ calls[2].probed[1].item = <<calls[1].wrote[1].item>>
    /\ calls[2].probed[1].at - calls[1].wrote[1].item.timestamp = 1
    /\ ~calls[2].fromCache /\ calls[2].wrote = <<>> /\ calls[2].lastStatus = 500
    /\ calls[2].cacheKey[1] \notin DOMAIN responseCache

\* call 1 stored with cacheTime 1; call 2, whose cacheTime is 2, found the
\* entry aged 1 and was served it
C34_WitnessReaderTtl ==
    /\ Done(1) /\ Done(2)
    /\ calls[1].options.cacheTime = 1 /\ calls[2].options.cacheTime = 2
    /\ calls[1].wrote # <<>> /\ calls[2].probed # <<>>
    /\ calls[2].probed[1].item = <<calls[1].wrote[1].item>>
    /\ calls[2].probed[1].at - calls[1].wrote[1].item.timestamp = 1
    /\ calls[2].fromCache /\ OutcomeOf(2) = OutcomeOf(1)

----------------------------------------------------------------------------
(* Claims about what the cache key tells apart                             *)

\* the method, the URL and the string body of the context r dispatches with
KeyFields(r) ==
    <<r.requestContext.method, r.requestContext.url,
      IF r.requestContext.body.type = "string" THEN r.requestContext.body.text ELSE "">>

\* what two calls may differ in without the cache telling them apart
Disguise(r) ==
    <<r.requestContext.headers, r.options.customToken, r.options.responseGuard,
      r.options.responseTransformer, r.requestContext.body.type, r.options.onRequest>>

(* C35: of two caching-enabled calls made one after the other, the second  *)
(* having probed the cache: when the two agree on the method, the URL and  *)
(* the string body they dispatch with they have the same cache key,        *)
(* whatever their headers, tokens, guards, transformers and non-string     *)
(* bodies; the second is then served from the cache exactly when the first *)
(* stored and the entry is younger than the second's cacheTime, and it     *)
(* then receives the Outcome of the first without dispatching; when they   *)
(* differ in the string body the second is not served.                     *)
C35_KeyFieldsDecide ==
    \A c1, c2 \in PairCalls :
        (c1 < c2 /\ calls[c2].probed # <<>>) =>
            /\ KeyFields(calls[c1]) = KeyFields(calls[c2]) =>
                  /\ calls[c1].cacheKey = calls[c2].cacheKey
                  /\ calls[c2].fromCache <=>
                        /\ calls[c1].wrote # <<>>
                        /\ StartedAt(c2) - StoredAt(c1) < calls[c2].options.cacheTime
                  /\ calls[c2].fromCache =>
                        /\ Done(c2) /\ calls[c2].dispatches = 0
                        /\ OutcomeOf(c2) = OutcomeOf(c1)
            /\ KeyFields(calls[c1]) # KeyFields(calls[c2]) => ~calls[c2].fromCache

\* the first call sent a token and a Blob and mapped the response; the
\* second, with another header, no token, no body, a guard and a request
\* interceptor, was served the mapped response of the first
C35_Witness ==
    /\ Done(1) /\ Done(2) /\ calls[2].fromCache /\ calls[2].dispatches = 0
    /\ OutcomeOf(2) = OutcomeOf(1) /\ OutcomeOf(1).isSuccess
    /\ OutcomeOf(1).response[1].kind = "mapped"
    /\ calls[1].options.customToken = "tok" /\ calls[1].options.body = BlobBody
    /\ calls[1].options.responseTransformer
    /\ calls[2].options.customToken = "" /\ calls[2].options.body = NoBody
    /\ calls[2].options.responseGuard /\ calls[2].options.onRequest = "rewrite"
    /\ HeadersHas(calls[2].requestContext.headers, "X-A")
    /\ Disguise(calls[1]) # Disguise(calls[2])

----------------------------------------------------------------------------
(* Claims about identical calls in flight together                         *)

\* c returns in this step with an Outcome that is stored: a Success, or a
\* Failure made from a response of status 400..499
ReturnsCacheable(c) ==
    /\ Returns(c) /\ ~calls'[c].fromCache /\ calls[c].cacheKey # Null
    /\ calls[c].pc \in {"errBody", "okBody", "onResponse"}
    /\ \/ OutcomeOf(c)'.isSuccess
       \/ calls[c].code >= 400 /\ calls[c].code < 500

(* C36: a call that probes the cache while an identical call is between    *)
(* its probe and its store finds nothing and makes its own dispatch; each  *)
(* of the two that returns an Outcome that is stored sets the entry of the *)
(* key to that Outcome, over the entry of the other if that is there; so   *)
(* once both have stored the entry is that of the one that stored last,    *)
(* and both Outcomes were obtained by a dispatch.                          *)
C36_NotCoalesced ==
    /\ [][\A c, d \in PairCalls :
            /\ (c # d /\ Probes(d) /\ BetweenProbeAndStore(c)
                  /\ calls'[d].cacheKey = calls[c].cacheKey) =>
                  /\ calls'[d].probed[1].item = <<>>
                  /\ calls'[d].pc = "fetch" /\ calls'[d].dispatches = 1
                  /\ calls'[c] = calls[c]
            /\ ReturnsCacheable(c) =>
                  /\ calls'[c].wrote # <<>>
                  /\ responseCache' = MapSet(responseCache, calls[c].cacheKey[1],
                                             [data |-> OutcomeOf(c)', timestamp |-> now])
       ]_vars
    /\ [](\A c, d \in PairCalls :
            (c # d /\ calls[c].wrote # <<>> /\ calls[d].wrote # <<>>
               /\ calls[c].probed[1].item = <<>> /\ calls[d].probed[1].item = <<>>) =>
                /\ calls[c].dispatches = 1 /\ calls[d].dispatches = 1
                /\ calls[c].cacheKey[1] \in DOMAIN responseCache
                /\ responseCache[calls[c].cacheKey[1]]
                      \in {calls[c].wrote[1].item, calls[d].wrote[1].item})

\* both calls found nothing, so each probed before the other stored; call
\* 1 stored a Success, then call 2 stored a 404 Failure one tick later:
\* the entry is the Failure of call 2
C36_Witness ==
    /\ Done(1) /\ Done(2) /\ calls[1].cacheKey = calls[2].cacheKey
    /\ calls[1].probed[1].item = <<>> /\ calls[2].probed[1].item = <<>>
    /\ calls[1].dispatches = 1 /\ calls[2].dispatches = 1
    /\ calls[1].wrote # <<>> /\ calls[2].wrote # <<>>
    /\ OutcomeOf(1).isSuccess /\ OutcomeOf(2).code = Num(404)
    /\ StoredAt(2) = StoredAt(1) + 1
    /\ responseCache[calls[1].cacheKey[1]] = calls[2].wrote[1].item

----------------------------------------------------------------------------
(* Claims about clearing the cache while calls are in flight               *)

(* C37: a step that is a call of clearFetchCache leaves the cache empty    *)
(* and every call, in flight or not, as it was; a call that returns an     *)
(* Outcome that is stored while the cache is empty leaves the cache with   *)
(* exactly the entry of its key, holding that Outcome; and every entry of  *)
(* the cache is what some call stored last.                                *)
C37_ClearSparesInFlight ==
    /\ [][called' = <<"clearFetchCache">> =>
            /\ responseCache' = <<>> /\ cacheOrder' = <<>>
            /\ calls' = calls /\ now' = now /\ extAborted' = extAborted
       ]_vars
    /\ [][\A c \in AllCalls :
            (ReturnsCacheable(c) /\ responseCache = <<>>) =>
                /\ DOMAIN responseCache' = {calls[c].cacheKey[1]}
                /\ responseCache'[calls[c].cacheKey[1]]
                      = [data |-> OutcomeOf(c)', timestamp |-> now]
                /\ cacheOrder' = <<calls[c].cacheKey[1]>>
       ]_vars
    /\ [](\A k \in DOMAIN responseCache :
            \E c \in AllCalls :
                calls[c].wrote = <<[key |-> k, item |-> responseCache[k]]>>)

\* call 1 probed at time 0; call 2, of another key, stored at time 1; the
\* entry of call 2 is gone, which only clearFetchCache can have done; the
\* cache holds the entry call 1 stored afterwards and nothing else
C37_Witness ==
    /\ Done(1) /\ Done(2)
    /\ calls[2].cacheKey = <<"GET:/u:$">> /\ calls[1].cacheKey = <<"GET:/u:$:">>
    /\ calls[1].probed[1].at = 0
    /\ calls[2].wrote # <<>> /\ StoredAt(2) = 1
    /\ calls[1].wrote # <<>>
    /\ DOMAIN responseCache = {"GET:/u:$:"}
    /\ responseCache["GET:/u:$:"] = calls[1].wrote[1].item
    /\ responseCache["GET:/u:$:"].data = OutcomeOf(1)

----------------------------------------------------------------------------
(* Claims about guard rejections and the cache                             *)

\* the Failure a guard rejection of c makes
RejectionOf(c) ==
    createErrorResponse(Message(IF calls[c].rejectedBy[1].guard = "errorGuard"
                                THEN "Error validation failed"
                                ELSE "Response validation failed"),
                        Num(calls[c].rejectedBy[1].code), calls[c].requestId)

(* C38: the step in which a guard rejects returns the Failure of the       *)
(* rejection and leaves the cache as it was; the call has then never       *)
(* invoked its response interceptor and never stored, whatever the status  *)
(* of the response and with caching enabled; no entry of the cache holds   *)
(* such a Failure; and the next call with the same key is not served from  *)
(* the cache: it dispatches.                                               *)
C38_RejectionNotStored ==
    /\ [][\A c \in AllCalls :
            calls'[c].rejectedBy # calls[c].rejectedBy =>
                /\ Returns(c) /\ OutcomeOf(c)' = RejectionOf(c)'
                /\ calls[c].pc \in {"errBody", "okBody"}
                /\ responseCache' = responseCache
       ]_vars
    /\ [](\A c \in AllCalls :
            calls[c].rejectedBy # <<>> =>
                /\ calls[c].onResponseCalls = 0 /\ calls[c].intercepted = <<>>
                /\ calls[c].wrote = <<>>
                /\ \A k \in DOMAIN responseCache : responseCache[k].data # OutcomeOf(c)
                /\ \A d \in PairCalls :
                      (c < d /\ calls[d].probed # <<>>
                         /\ calls[d].cacheKey = calls[c].cacheKey) =>
                          /\ ~calls[d].fromCache
                          /\ calls[d].probed[1].item = <<>>
                          /\ calls[d].dispatches >= 1)

\* caching and a response interceptor configured: the error guard
\* rejected the 404 of call 1 and the response guard the 200 of call 2,
\* which had found nothing in the cache and dispatched; the interceptor
\* was never invoked and the cache is empty
C38_Witness ==
    /\ Done(1) /\ Done(2)
    /\ calls[1].options.onResponse /\ calls[2].options.onResponse
    /\ RejectedBy(1, "errorGuard") /\ calls[1].rejectedBy[1].code = 404
    /\ RejectedBy(2, "responseGuard") /\ calls[2].rejectedBy[1].code = 200
    /\ calls[2].cacheKey = calls[1].cacheKey /\ calls[2].dispatches = 1
    /\ calls[1].onResponseCalls = 0 /\ calls[2].onResponseCalls = 0
    /\ responseCache = <<>>

----------------------------------------------------------------------------
(* Claims about what the timeout covers                                    *)

\* the response of the current attempt of c has arrived and c is reading
\* its body, running guards and transformers, or awaiting its interceptor
AfterResponse(c) == calls[c].pc \in {"errBody", "okBody", "onResponse"}

(* C39: the timer of a call fires only while an attempt awaits the         *)
(* transport; after the response of an attempt has arrived no timer of the *)
(* call is armed, none has fired and the call's own signal is not aborted, *)
(* however long the body read, the guards, the transformers and the        *)
(* response interceptor take; a call whose timer fired ends with the 408   *)
(* Failure made from the AbortError of its last dispatch, which got no     *)
(* response; so a 408 Failure of a call whose last dispatch got a response *)
(* is not the timer's: the catch block made it from an AbortError raised   *)
(* by something else.                                                      *)
C39_TimeoutCoversDispatchOnly ==
    /\ [][\A c \in AllCalls :
            calls'[c].fired # calls[c].fired =>
                /\ calls[c].pc = "fetch" /\ calls'[c].pc = "fetch"
                /\ Unsettled(c) = 1
       ]_vars
    /\ [](\A c \in AllCalls :
            /\ AfterResponse(c) =>
                  /\ calls[c].timers = {} /\ calls[c].fired = <<>>
                  /\ ~calls[c].aborted
                  /\ calls[c].raised = <<>> /\ Unsettled(c) = 0
            /\ (Done(c) /\ calls[c].fired # <<>>) =>
                  /\ calls[c].raised = <<AbortErr>>
                  /\ calls[c].settled + calls[c].netErrors = calls[c].dispatches - 1
                  /\ IsTimeoutFailure(OutcomeOf(c), calls[c].requestId)
            /\ (Done(c) /\ calls[c].dispatches >= 1 /\ calls[c].raised = <<>>
                  /\ IsTimeoutFailure(OutcomeOf(c), calls[c].requestId)) =>
                  /\ calls[c].fired = <<>>
                  /\ calls[c].caught # <<>> /\ isAbortError(calls[c].caught[1]))

\* the response of the second attempt has arrived and its interceptor is
\* awaited: no timer is armed and none has fired
C39_Witness ==
    /\ calls[1].pc = "onResponse" /\ calls[1].options.abortController = NoHandle
    /\ calls[1].dispatches = 2 /\ calls[1].settled = 2
    /\ calls[1].timers = {} /\ calls[1].fired = <<>> /\ ~calls[1].aborted

\* a 408 Failure after the response had arrived: the caller aborted its
\* controller while the body was read; the timer never fired
C39_WitnessCallerAbort ==
    /\ Done(1) /\ IsTimeoutFailure(OutcomeOf(1), calls[1].requestId)
    /\ calls[1].settled = 1 /\ calls[1].dispatches = 1
    /\ AbortedWhile(1, {"okBody"}) /\ calls[1].fired = <<>>

====
